---- MODULE Spec2Model ----
(***************************************************************************)
(* A model of midi2agb (src/midi2agb.cpp): the passes that turn a MIDI     *)
(* score into GBA m4a assembly.  Each pass is modelled under its own       *)
(* specification; the variables of the passes that a specification does    *)
(* not exercise stay at their initial value.                               *)
(*                                                                         *)
(*   SpecEmit   write_event and agb_state (the emitter state machine)      *)
(*   SpecWait   write_event on every WAIT length                           *)
(*   SpecLoop   midi_apply_loop_and_state_reset on one track               *)
(*   SpecRed    midi_remove_redundant_events on one track, run twice       *)
(*   SpecLower  midi_to_agb: bar table and per-track lowering              *)
(*   SpecNote   write_event on NOTE events of every length                 *)
(*   SpecBars   midi_to_agb: the bar table loop under any time signature   *)
(*   SpecPair   midi_to_agb on one track of notes of two keys              *)
(*   SpecShape  the same with weak fairness, for termination in die()      *)
(*   SpecOpt    agb_optimize                                               *)
(*   SpecDedup  write_agb: compression table and bar emission              *)
(*   SpecInterp midi_read_infile_arguments, then the lowering of its TUNE  *)
(*   SpecFilter midi_apply_filters on one track                            *)
(*   SpecVel    midi_apply_filters on note-ons of every velocity           *)
(*   SpecLoopRed the Loop/State Restorer, then the Redundancy Eliminator   *)
(*   SpecPrune  midi_remove_empty_tracks, then track 0 up to the Eliminator *)
(*   SpecRpn    midi_read_infile_arguments on RPN and data entry events     *)
(***************************************************************************)
EXTENDS Integers, Sequences, FiniteSets, TLC

VARIABLES
    phase,      \* which pass is running / where it stands
    state,      \* agb_state of the emitter
    ev,         \* the AgbEvent handed to the last write_event call
    lines,      \* the lines that call wrote
    dec,        \* running status of a reader of the emitted lines
    decoded,    \* the events that reader gets from `lines`
    input,      \* the MIDI track as handed to the pass under study
    mtrk,       \* mtrk.midi_events of the track the pass works on
    idx,        \* the pass's loop index into mtrk (1-based)
    snap,       \* midi_apply_loop_and_state_reset: tempo, voice, ... prio
    loop_start_tick, \* midi_apply_loop_and_state_reset: loop_start_tick
    mf,         \* mf.midi_tracks as midi_to_agb sees them
    bar_table,  \* midi_to_agb: bar_table
    current_bar_len, \* midi_to_agb: current_bar_len
    itrk,       \* midi_to_agb: the track being lowered (1-based)
    current_bar,     \* midi_to_agb: current_bar (0-based, as in the code)
    tick_counter,    \* midi_to_agb: tick_counter
    as_tracks,  \* as.tracks: per track the bars, per bar the events and flags
    first_ev_at_tick, \* agb_optimize: first_ev_at_tick (1-based, as idx)
    ibar,       \* the bar a pass over as.tracks works on (1-based)
    compression_table, \* write_agb: compression_table
    fout,       \* write_agb: the lines written for the track bodies
    red,        \* midi_remove_redundant_events: tempo, voice, ... prio
    once,       \* the track as one run of midi_remove_redundant_events left it
    arg,        \* the arg_* globals that the passes read or set
    meta,       \* midi_read_infile_arguments: found_start, ..., volume_init
    volume,     \* midi_apply_filters: volume
    expression  \* midi_apply_filters: expression

emitVars == <<state, ev, lines, dec, decoded>>
trackVars == <<input, mtrk, idx>>
loopVars == <<snap, loop_start_tick>>
lowerVars == <<mf, bar_table, current_bar_len, itrk, current_bar, tick_counter>>
songVars == <<as_tracks>>
optVars == <<first_ev_at_tick>>
dedupVars == <<ibar, compression_table, fout>>
redVars == <<red, once>>
interpVars == <<arg, meta>>
filterVars == <<volume, expression>>
restVars ==
    <<lowerVars, songVars, optVars, dedupVars, redVars, interpVars, filterVars>>
vars == <<phase, emitVars, trackVars, loopVars, restVars>>

(***************************************************************************)
(* Sequence helpers                                                        *)
(***************************************************************************)
RECURSIVE SumSeq(_)
SumSeq(s) == IF s = <<>> THEN 0 ELSE Head(s) + SumSeq(Tail(s))

Max(a, b) == IF a > b THEN a ELSE b

(* template clamp *)
clamp(v, lo, hi) == IF v < lo THEN lo ELSE IF hi < v THEN hi ELSE v

(* static_cast<uint8_t> and static_cast<int8_t> of an int *)
u8(n) == n % 256
s8(n) == ((n + 128) % 256) - 128

(***************************************************************************)
(* AgbEvent (struct agb_ev): a tag and up to three payload fields.         *)
(*   WAIT: a = wait          NOTE: a = len, b = key, c = vel               *)
(*   TIE:  a = key, b = vel  EOT:  a = key     XCMD: a = type, b = par     *)
(*   every other tag: a = its one operand                                  *)
(***************************************************************************)
AgbEv(t, a, b, c) == [a |-> a, b |-> b, c |-> c, type |-> t]

NoEv == AgbEv("NONE", 0, 0, 0)

(* agb_ev::size() *)
ev_size(e) ==
    CASE e.type = "WAIT" -> 1
      [] e.type = "LOOP_START" -> 0
      [] e.type = "LOOP_END" -> 5
      [] e.type = "XCMD" -> 3
      [] e.type = "TIE" -> 3
      [] e.type = "NOTE" -> 4
      [] OTHER -> 2

(***************************************************************************)
(* MIDI events (cppmidi::midi_event and its subclasses): the tick and      *)
(*   tempo: a = us per beat        timesig: a = numerator, b = log2 denom  *)
(*   program: a = program          pitchbend: a = pitch                    *)
(*   controller: a = controller, b = value                                 *)
(*   noteon / noteoff: a = key, b = velocity      dummy: nothing           *)
(***************************************************************************)
MidiEv(t, ticks, chn, a, b) ==
    [a |-> a, b |-> b, type |-> t, ticks |-> ticks, chn |-> chn]

Tempo(ticks, us) == MidiEv("tempo", ticks, 0, us, 0)
Program(ticks, chn, prog) == MidiEv("program", ticks, chn, prog, 0)
PitchBend(ticks, chn, pitch) == MidiEv("pitchbend", ticks, chn, pitch, 0)
Controller(ticks, chn, ctrl, val) == MidiEv("controller", ticks, chn, ctrl, val)
NoteOn(ticks, chn, key, vel) == MidiEv("noteon", ticks, chn, key, vel)
NoteOff(ticks, chn, key, vel) == MidiEv("noteoff", ticks, chn, key, vel)
Dummy(ticks) == MidiEv("dummy", ticks, 0, 0, 0)
TimeSig(ticks, nn, dd) == MidiEv("timesig", ticks, 0, nn, dd)

MIDI_CC_MSB_MOD == 1
MIDI_CC_MSB_VOLUME == 7
MIDI_CC_MSB_PAN == 10
MIDI_CC_EX_BENDR == 20
MIDI_CC_EX_LFOS == 21
MIDI_CC_EX_MODT == 22
MIDI_CC_EX_TUNE == 24
MIDI_CC_EX_LFODL == 26
MIDI_CC_EX_LOOP == 30
MIDI_CC_EX_PRIO == 33
EX_LOOP_START == 100
EX_LOOP_END == 101

IsCtrl(e, ctrl) == e.type = "controller" /\ e.a = ctrl
IsLoopStart(e) == IsCtrl(e, MIDI_CC_EX_LOOP) /\ e.b = EX_LOOP_START
IsLoopEnd(e) == IsCtrl(e, MIDI_CC_EX_LOOP) /\ e.b = EX_LOOP_END

(* std::vector::insert of the elements of `es` before position i *)
InsertAt(s, i, es) == SubSeq(s, 1, i - 1) \o es \o SubSeq(s, i, Len(s))

(***************************************************************************)
(* The emitter: agb_state and write_event                                  *)
(***************************************************************************)
KEY_NONE == 255

(* agb_state::agb_state() and agb_state::reset() *)
agb_state_reset ==
    [cmd_state |-> "INVALID", note_key |-> KEY_NONE, note_vel |-> KEY_NONE,
     note_len |-> 0, may_repeat |-> FALSE]

(* write_event::len_table, indexed 0..96 *)
len_table_seq ==
    << 0, 1, 2, 3, 4, 5, 6, 7, 8, 9, 10, 11, 12, 13, 14, 15, 16,
       17, 18, 19, 20, 21, 22, 23, 24, 24, 24, 24, 28, 28, 30, 30,
       32, 32, 32, 32, 36, 36, 36, 36, 40, 40, 42, 42, 44, 44, 44,
       44, 48, 48, 48, 48, 52, 52, 54, 54, 56, 56, 56, 56, 60, 60,
       60, 60, 64, 64, 66, 66, 68, 68, 68, 68, 72, 72, 72, 72, 76,
       76, 78, 78, 80, 80, 80, 80, 84, 84, 84, 84, 88, 88, 90, 90,
       92, 92, 92, 92, 96 >>

len_table(n) == len_table_seq[n + 1]

(* One emitted line: an opcode (or "" when running status is used), the    *)
(* number that is part of a Wnn / Nnn mnemonic, and the operands.          *)
Line(op, n, args) == [n |-> n, op |-> op, args |-> args]

(* the `while (len > 96)` loop of the WAIT case: one W96 per turn *)
RECURSIVE wait_w96(_)
wait_w96(len) ==
    IF len > 96 THEN <<Line("W", 96, <<>>)>> \o wait_w96(len - 96) ELSE <<>>

RECURSIVE wait_rest(_)
wait_rest(len) == IF len > 96 THEN wait_rest(len - 96) ELSE len

(* write_WAIT with the remainder after the quantised wait left out *)
write_WAIT_no_remainder(st, e) ==
    [st  |-> [st EXCEPT !.may_repeat = TRUE],
     out |-> wait_w96(e.a) \o <<Line("W", len_table(wait_rest(e.a)), <<>>)>>]

(* case agb_ev::ty::WAIT *)
write_WAIT(st, e) ==
    LET len  == wait_rest(e.a)
        wout == len_table(len)
        rem  == len - wout
    IN  [st  |-> [st EXCEPT !.may_repeat = TRUE],
         out |-> wait_w96(e.a) \o <<Line("W", wout, <<>>)>>
                 \o (IF rem > 0 THEN <<Line("W", rem, <<>>)>> ELSE <<>>)]

(* the operands as printed: c_v%+d for the signed ones, a name for MODT,   *)
(* %d/2 of the doubled value for TEMPO                                     *)
C_V == 64

modt_name(v) == IF v = 1 THEN "mod_tre" ELSE IF v = 2 THEN "mod_pan" ELSE "mod_vib"

operands(e) ==
    CASE e.type \in {"PAN", "BEND", "TUNE"} -> <<C_V + e.a>>
      [] e.type = "MODT" -> <<modt_name(e.a)>>
      [] e.type = "XCMD" -> <<e.a, e.b>>
      [] e.type = "TEMPO" -> <<e.a * 2>>
      [] OTHER -> <<e.a>>

StatefulCmds ==
    {"VOICE", "VOL", "PAN", "BEND", "BENDR", "LFOS", "LFODL", "MOD", "MODT",
     "TUNE", "XCMD"}

(* cases VOICE .. XCMD: operand only when the command may repeat *)
write_ctrl(st, e) ==
    IF st.may_repeat /\ st.cmd_state = e.type
    THEN [st |-> st, out |-> <<Line("", 0, operands(e))>>]
    ELSE [st  |-> [st EXCEPT !.may_repeat = TRUE, !.cmd_state = e.type],
          out |-> <<Line(e.type, 0, operands(e))>>]

(* cases PRIO, TEMPO, KEYSH: always opcode and operand, no state change *)
write_plain(st, e) == [st |-> st, out |-> <<Line(e.type, 0, operands(e))>>]

(* case LOOP_START: the label, then state.reset() *)
write_LOOP_START(st, e) ==
    [st |-> agb_state_reset, out |-> <<Line("LOOPLABEL", 0, <<>>)>>]

(* case LOOP_END: GOTO *)
write_LOOP_END(st, e) == [st |-> st, out |-> <<Line("GOTO", 0, <<>>)>>]

(* case EOT *)
write_EOT(st, e) ==
    IF st.may_repeat /\ st.cmd_state = "EOT"
    THEN [st  |-> [st EXCEPT !.note_key = e.a],
          out |-> <<Line("", 0, <<e.a>>)>>]
    ELSE IF st.note_key = e.a
    THEN [st  |-> [st EXCEPT !.may_repeat = TRUE, !.cmd_state = "EOT"],
          out |-> <<Line("EOT", 0, <<>>)>>]
    ELSE [st  |-> [st EXCEPT !.note_key = e.a, !.may_repeat = TRUE,
                             !.cmd_state = "EOT"],
          out |-> <<Line("EOT", 0, <<e.a>>)>>]

(* write_TIE that writes key and velocity but forgets the new velocity *)
write_TIE_stale_vel(st, e) ==
    IF st.may_repeat /\ st.cmd_state = "TIE"
    THEN [st  |-> [st EXCEPT !.note_key = e.a],
          out |-> <<Line("", 0, <<e.a, e.b>>)>>]
    ELSE [st  |-> [st EXCEPT !.note_key = e.a, !.may_repeat = FALSE,
                             !.cmd_state = "TIE"],
          out |-> <<Line("TIE", 0, <<e.a, e.b>>)>>]

(* case TIE *)
write_TIE(st, e) ==
    IF st.may_repeat /\ st.cmd_state = "TIE"
    THEN IF st.note_vel = e.b
         THEN [st  |-> [st EXCEPT !.note_key = e.a, !.may_repeat = FALSE],
               out |-> <<Line("", 0, <<e.a>>)>>]
         ELSE [st  |-> [st EXCEPT !.note_key = e.a, !.note_vel = e.b],
               out |-> <<Line("", 0, <<e.a, e.b>>)>>]
    ELSE IF st.note_key = e.a /\ st.note_vel = e.b
    THEN [st  |-> [st EXCEPT !.may_repeat = FALSE, !.cmd_state = "TIE"],
          out |-> <<Line("TIE", 0, <<>>)>>]
    ELSE IF st.note_vel = e.b
    THEN [st  |-> [st EXCEPT !.note_key = e.a, !.may_repeat = FALSE,
                             !.cmd_state = "TIE"],
          out |-> <<Line("TIE", 0, <<e.a>>)>>]
    ELSE [st  |-> [st EXCEPT !.note_key = e.a, !.note_vel = e.b,
                             !.may_repeat = FALSE, !.cmd_state = "TIE"],
          out |-> <<Line("TIE", 0, <<e.a, e.b>>)>>]

(* case NOTE, the branch taken when the NOTE command may repeat *)
write_NOTE_repeat(st, e) ==
    LET len == e.a  key == e.b  vel == e.c  base == len_table(e.a)
        gate == e.a - len_table(e.a)
    IN  IF st.note_vel = vel /\ st.note_len = len
        THEN [st  |-> [st EXCEPT !.note_key = key, !.may_repeat = FALSE],
              out |-> <<Line("", 0, <<key>>)>>]
        ELSE IF st.note_len = len
        THEN [st  |-> [st EXCEPT !.note_key = key, !.note_vel = vel,
                                 !.may_repeat = FALSE],
              out |-> <<Line("", 0, <<key, vel>>)>>]
        ELSE IF st.note_len = base
        THEN [st  |-> [st EXCEPT !.note_key = key, !.note_vel = vel,
                                 !.note_len = base],
              out |-> <<Line("", 0, <<key, vel, gate>>)>>]
        ELSE IF len = base /\ st.note_key = key /\ st.note_vel = vel
        THEN [st  |-> [st EXCEPT !.note_len = len, !.may_repeat = FALSE],
              out |-> <<Line("N", len, <<>>)>>]
        ELSE IF len = base /\ st.note_vel = vel
        THEN [st  |-> [st EXCEPT !.note_len = len, !.note_key = key,
                                 !.may_repeat = FALSE],
              out |-> <<Line("N", len, <<key>>)>>]
        ELSE IF len = base
        THEN [st  |-> [st EXCEPT !.note_key = key, !.note_vel = vel,
                                 !.note_len = len, !.may_repeat = FALSE],
              out |-> <<Line("N", base, <<key, vel>>)>>]
        ELSE [st  |-> [st EXCEPT !.note_key = key, !.note_vel = vel,
                                 !.note_len = base],
              out |-> <<Line("N", base, <<key, vel, gate>>)>>]

(* a NOTE branch that remembers the length as given, gate time included *)
write_NOTE_first_raw_len(st, e) ==
    [st  |-> [st EXCEPT !.note_len = e.a, !.note_key = e.b, !.note_vel = e.c,
                        !.may_repeat = (e.a # len_table(e.a)),
                        !.cmd_state = "NOTE"],
     out |-> <<Line("N", len_table(e.a), <<e.b, e.c, e.a - len_table(e.a)>>)>>]

(* case NOTE, the branch that always writes the opcode *)
write_NOTE_first(st, e) ==
    LET len == e.a  key == e.b  vel == e.c  base == len_table(e.a)
        gate_time == e.a - len_table(e.a)
    IN  IF gate_time = 0 /\ st.note_key = key /\ st.note_vel = vel
        THEN [st  |-> [st EXCEPT !.note_len = len, !.may_repeat = FALSE,
                                 !.cmd_state = "NOTE"],
              out |-> <<Line("N", len, <<>>)>>]
        ELSE IF gate_time = 0 /\ st.note_vel = vel
        THEN [st  |-> [st EXCEPT !.note_len = len, !.note_key = key,
                                 !.may_repeat = FALSE, !.cmd_state = "NOTE"],
              out |-> <<Line("N", len, <<key>>)>>]
        ELSE IF gate_time = 0
        THEN [st  |-> [st EXCEPT !.note_len = len, !.note_key = key,
                                 !.note_vel = vel, !.may_repeat = FALSE,
                                 !.cmd_state = "NOTE"],
              out |-> <<Line("N", len, <<key, vel>>)>>]
        ELSE [st  |-> [st EXCEPT !.note_len = base, !.note_key = key,
                                 !.note_vel = vel, !.may_repeat = TRUE,
                                 !.cmd_state = "NOTE"],
              out |-> <<Line("N", base, <<key, vel, gate_time>>)>>]

write_NOTE(st, e) ==
    IF st.may_repeat /\ st.cmd_state = "NOTE"
    THEN write_NOTE_repeat(st, e)
    ELSE write_NOTE_first(st, e)

(* write_event: the switch over ev.type *)
write_event(st, e) ==
    CASE e.type = "WAIT" -> write_WAIT(st, e)
      [] e.type = "LOOP_START" -> write_LOOP_START(st, e)
      [] e.type = "LOOP_END" -> write_LOOP_END(st, e)
      [] e.type \in {"PRIO", "TEMPO", "KEYSH"} -> write_plain(st, e)
      [] e.type \in StatefulCmds -> write_ctrl(st, e)
      [] e.type = "EOT" -> write_EOT(st, e)
      [] e.type = "TIE" -> write_TIE(st, e)
      [] e.type = "NOTE" -> write_NOTE(st, e)

(***************************************************************************)
(* A reader of the emitted lines, following the running-status rules of    *)
(* the sound engine as MPlayDef.s and the specification describe them: a   *)
(* line without opcode belongs to the last stateful command; an omitted    *)
(* key or velocity is the last one read; a note lasts its Nnn base plus    *)
(* the gate time operand.                                                  *)
(***************************************************************************)
dec_reset == [key |-> KEY_NONE, vel |-> KEY_NONE, n |-> 0, cmd |-> "INVALID"]

modt_value(name) ==
    IF name = "mod_tre" THEN 1 ELSE IF name = "mod_pan" THEN 2 ELSE 0

(* the event a stateful command `cmd` with operands `args` stands for *)
decode_cmd(d, cmd, n, args) ==
    CASE cmd \in {"PAN", "BEND", "TUNE"} ->
            [d |-> [d EXCEPT !.cmd = cmd], e |-> AgbEv(cmd, args[1] - C_V, 0, 0)]
      [] cmd = "MODT" ->
            [d |-> [d EXCEPT !.cmd = cmd],
             e |-> AgbEv(cmd, modt_value(args[1]), 0, 0)]
      [] cmd = "XCMD" ->
            [d |-> [d EXCEPT !.cmd = cmd], e |-> AgbEv(cmd, args[1], args[2], 0)]
      [] cmd \in StatefulCmds \ {"PAN", "BEND", "TUNE", "MODT", "XCMD"} ->
            [d |-> [d EXCEPT !.cmd = cmd], e |-> AgbEv(cmd, args[1], 0, 0)]
      [] cmd = "EOT" ->
            LET key == IF Len(args) >= 1 THEN args[1] ELSE d.key
            IN  [d |-> [d EXCEPT !.cmd = cmd, !.key = key],
                 e |-> AgbEv("EOT", key, 0, 0)]
      [] cmd = "TIE" ->
            LET key == IF Len(args) >= 1 THEN args[1] ELSE d.key
                vel == IF Len(args) >= 2 THEN args[2] ELSE d.vel
            IN  [d |-> [d EXCEPT !.cmd = cmd, !.key = key, !.vel = vel],
                 e |-> AgbEv("TIE", key, vel, 0)]
      [] cmd = "N" ->
            LET key == IF Len(args) >= 1 THEN args[1] ELSE d.key
                vel == IF Len(args) >= 2 THEN args[2] ELSE d.vel
                gate == IF Len(args) >= 3 THEN args[3] ELSE 0
            IN  [d |-> [d EXCEPT !.cmd = cmd, !.n = n, !.key = key, !.vel = vel],
                 e |-> AgbEv("NOTE", n + gate, key, vel)]
      [] OTHER -> [d |-> d, e |-> AgbEv("UNDECODABLE", 0, 0, 0)]

decode_line(d, l) ==
    CASE l.op = "W" -> [d |-> d, e |-> AgbEv("WAIT", l.n, 0, 0)]
      [] l.op = "LOOPLABEL" -> [d |-> d, e |-> AgbEv("LOOP_START", 0, 0, 0)]
      [] l.op = "GOTO" -> [d |-> d, e |-> AgbEv("LOOP_END", 0, 0, 0)]
      [] l.op \in {"PRIO", "KEYSH"} -> [d |-> d, e |-> AgbEv(l.op, l.args[1], 0, 0)]
      [] l.op = "TEMPO" -> [d |-> d, e |-> AgbEv(l.op, l.args[1] \div 2, 0, 0)]
      [] l.op = "" -> decode_cmd(d, d.cmd, d.n, l.args)
      [] OTHER -> decode_cmd(d, l.op, l.n, l.args)

RECURSIVE decode_lines(_, _)
decode_lines(d, ls) ==
    IF ls = <<>> THEN [d |-> d, es |-> <<>>]
    ELSE LET r    == decode_line(d, Head(ls))
             rest == decode_lines(r.d, Tail(ls))
         IN  [d |-> rest.d, es |-> <<r.e>> \o rest.es]

(***************************************************************************)
(* SpecEmit: any sequence of write_event calls, with the state.reset()     *)
(* that write_agb does at a bar label and after a PATT call.               *)
(***************************************************************************)
MaxWait == 200

WaitLens == {1, 25, 97}
NoteLens == {1, 24, 25, 27, 28, 96}
Keys == {60, 61}
Vels == {100, 127}

EmitEvents ==
    {AgbEv("WAIT", n, 0, 0) : n \in WaitLens}
    \cup {AgbEv("LOOP_START", 0, 0, 0), AgbEv("LOOP_END", 0, 0, 0)}
    \cup {AgbEv("PRIO", 5, 0, 0), AgbEv("TEMPO", 75, 0, 0), AgbEv("KEYSH", 0, 0, 0)}
    \cup {AgbEv(t, v, 0, 0) : t \in {"VOICE", "VOL"}, v \in {0, 127}}
    \cup {AgbEv(t, v, 0, 0) : t \in {"PAN", "BEND", "TUNE"}, v \in {-64, 63}}
    \cup {AgbEv(t, 2, 0, 0) : t \in {"BENDR", "LFOS", "LFODL", "MOD"}}
    \cup {AgbEv("MODT", v, 0, 0) : v \in 0..3}
    \cup {AgbEv("XCMD", 8, 1, 0)}
    \cup {AgbEv("EOT", k, 0, 0) : k \in Keys}
    \cup {AgbEv("TIE", k, v, 0) : k \in Keys, v \in Vels}
    \cup {AgbEv("NOTE", l, k, v) : l \in NoteLens, k \in Keys, v \in Vels}

InitIdleEmit ==
    /\ state = agb_state_reset
    /\ ev = NoEv
    /\ lines = <<>>
    /\ dec = dec_reset
    /\ decoded = <<>>

InitIdleTrack == input = <<>> /\ mtrk = <<>> /\ idx = 1

InitIdleLoop == snap = <<>> /\ loop_start_tick = 0
InitIdleLower ==
    /\ mf = <<>> /\ bar_table = <<>> /\ current_bar_len = 0
    /\ itrk = 1 /\ current_bar = 0 /\ tick_counter = 0
InitIdleSong == as_tracks = <<>>
InitIdleOpt == first_ev_at_tick = 1
InitIdleDedup == ibar = 1 /\ compression_table = {} /\ fout = <<>>
InitIdleRed == red = <<>> /\ once = <<>>
InitIdleInterp == arg = <<>> /\ meta = <<>>
InitIdleFilter == volume = 0 /\ expression = 0
InitIdleRest ==
    /\ InitIdleLower /\ InitIdleSong /\ InitIdleOpt /\ InitIdleDedup
    /\ InitIdleRed /\ InitIdleInterp /\ InitIdleFilter

InitEmit ==
    phase = "emit" /\ InitIdleEmit /\ InitIdleTrack /\ InitIdleLoop /\ InitIdleRest

(* one call write_event(fout, state, e, itrk) *)
WriteEvent(e) ==
    /\ phase = "emit"
    /\ LET r == write_event(state, e)
           d == decode_lines(dec, r.out)
       IN  /\ state' = r.st
           /\ lines' = r.out
           /\ dec' = d.d
           /\ decoded' = d.es
    /\ ev' = e
    /\ UNCHANGED <<phase, trackVars, loopVars, restVars>>

(* write_agb: state.reset() at the label of a referenced bar and after a   *)
(* PATT call                                                               *)
ResetState ==
    /\ phase = "emit"
    /\ state' = agb_state_reset
    /\ ev' = NoEv
    /\ lines' = <<>>
    /\ decoded' = <<>>
    /\ UNCHANGED <<phase, dec, trackVars, loopVars, restVars>>

NextEmit == (\E e \in EmitEvents : WriteEvent(e)) \/ ResetState

SpecEmit == InitEmit /\ [][NextEmit]_vars

(***************************************************************************)
(* SpecNote: write_event on NOTE events of every length 1..NOTE_LEN_MAX,   *)
(* with the WAIT and EOT events that set may_repeat, and state.reset()     *)
(***************************************************************************)
NOTE_LEN_MAX == 96

NoteEvents ==
    {AgbEv("NOTE", l, 60, v) : l \in 1..NOTE_LEN_MAX, v \in Vels}
    \cup {AgbEv("WAIT", 1, 0, 0), AgbEv("EOT", 60, 0, 0), AgbEv("TIE", 60, 100, 0)}

NextNote == (\E e \in NoteEvents : WriteEvent(e)) \/ ResetState

SpecNote == InitEmit /\ [][NextNote]_vars

(***************************************************************************)
(* SpecWait: write_event on WAIT(n) for every n in 1..MaxWait              *)
(***************************************************************************)
WriteWait == \E n \in 1..MaxWait : WriteEvent(AgbEv("WAIT", n, 0, 0))

SpecWait == InitEmit /\ [][WriteWait]_vars

(***************************************************************************)
(* C1 (as amended).  Emitter round trip: reading the lines of every        *)
(* write_event call with the running status left by the calls before it    *)
(* gives back the event written -- a WAIT as waits of the same total, any  *)
(* other event as itself -- provided a MODT operand is one of 0, 1, 2.     *)
(***************************************************************************)
RoundTrips ==
    IF ev.type = "WAIT"
    THEN /\ \A i \in 1..Len(decoded) : decoded[i].type = "WAIT"
         /\ SumSeq([i \in 1..Len(decoded) |-> decoded[i].a]) = ev.a
    ELSE decoded = <<ev>>

C1_RoundTripModt ==
    (ev # NoEv /\ ~(ev.type = "MODT" /\ ev.a \notin 0..2)) => RoundTrips

(* C1 as stated: the round trip for every AgbEvent, whatever its operand *)
C1_RoundTripAll == ev # NoEv => RoundTrips

(* a NOTE written without opcode, key and velocity only, is read back *)
C1_Witness ==
    /\ ev.type = "NOTE"
    /\ Len(lines) = 1 /\ lines[1].op = "" /\ Len(lines[1].args) = 1
    /\ decoded = <<ev>>

(***************************************************************************)
(* C2.  For every WAIT(n), n >= 1, the waits written are zero or more W96, *)
(* then W<len_table[r]>, then at most one more wait for the remainder;     *)
(* they sum to n and each is a wait the engine has: 1..24 or one of        *)
(* 28, 30, 32, 36, ..., 92, 96.                                            *)
(***************************************************************************)
RepresentableWaits ==
    (1..24) \cup {28, 30, 32, 36, 40, 42, 44, 48, 52, 54, 56, 60, 64, 66, 68,
                  72, 76, 78, 80, 84, 88, 90, 92, 96}

C2_WaitsSumAndRepresentable ==
    ev.type = "WAIT" =>
        /\ \A i \in 1..Len(lines) :
              lines[i].op = "W" /\ lines[i].n \in RepresentableWaits
        /\ SumSeq([i \in 1..Len(lines) |-> lines[i].n]) = ev.a
        /\ \E k \in 0..(Len(lines) - 1) :
              /\ ev.a - 96 * k \in 1..96
              /\ \A i \in 1..k : lines[i].n = 96
              /\ lines[k + 1].n = len_table(ev.a - 96 * k)
              /\ Len(lines) - k \in {1, 2}

(* WAIT(123): W96, then W24 for the 27 left, then W03 *)
C2_Witness ==
    /\ ev = AgbEv("WAIT", 123, 0, 0)
    /\ Len(lines) = 3
    /\ lines[1].n = 96 /\ lines[2].n = 24 /\ lines[3].n = 3

(***************************************************************************)
(* midi_apply_loop_and_state_reset (Loop/State Restorer), one track        *)
(***************************************************************************)
(* `loop_start_tick = 0xFFFFFFFF`, the largest uint32_t tick; the model    *)
(* carries it as the largest integer TLC has, which no tick of a modelled  *)
(* track reaches either                                                    *)
NO_LOOP_START == 2147483647

(* the locals tempo, voice, vol, pan, bend, bendr, mod, modt, tune, prio *)
snap_init ==
    [tempo |-> 500000, voice |-> 0, vol |-> 100, pan |-> 64, bend |-> 0,
     bendr |-> 2, mod |-> 0, modt |-> 0, tune |-> 64, prio |-> 0]

(* which local an event is copied to ("none": the event is passed over) *)
snap_field(e) ==
    CASE e.type = "tempo" -> "tempo"
      [] e.type = "program" -> "voice"
      [] e.type = "pitchbend" -> "bend"
      [] IsCtrl(e, MIDI_CC_MSB_VOLUME) -> "vol"
      [] IsCtrl(e, MIDI_CC_MSB_PAN) -> "pan"
      [] IsCtrl(e, MIDI_CC_EX_BENDR) -> "bendr"
      [] IsCtrl(e, MIDI_CC_MSB_MOD) -> "mod"
      [] IsCtrl(e, MIDI_CC_EX_MODT) -> "modt"
      [] IsCtrl(e, MIDI_CC_EX_TUNE) -> "tune"
      [] IsCtrl(e, MIDI_CC_EX_PRIO) -> "prio"
      [] OTHER -> "none"

(* the value the event carries: get_us_per_beat / get_program / get_pitch  *)
(* for the three message kinds, get_value for a controller                 *)
snap_value(e) == IF e.type = "controller" THEN e.b ELSE e.a

(* a gate that also lets events after the loop start tick through *)
loop_gate_open(e, lst) == TRUE

(* a gate that shuts at the loop start tick itself *)
loop_gate_strict(e, lst) == e.ticks < lst

(* `if (ev.ticks <= loop_start_tick)` *)
loop_gate(e, lst) == e.ticks <= lst

(* a splice test that also accepts a loop end at the loop start tick *)
loop_end_splices_geq(e, lst) == e.ticks >= lst

(* `ev.ticks > loop_start_tick` at a loop end marker *)
loop_end_splices(e, lst) == e.ticks > lst

(* the update of the locals by one event *)
loop_snapshot(sn, lst, e) ==
    IF snap_field(e) # "none" /\ loop_gate(e, lst)
    THEN [sn EXCEPT ![snap_field(e)] = snap_value(e)]
    ELSE sn

(* the order of ptrs.emplace_back *)
RestoreOrder ==
    <<"tempo", "voice", "vol", "pan", "bend", "bendr", "mod", "modt", "tune",
      "prio">>

(* the restore event for one local, at tick `ticks` on channel `chn` *)
restore_event(f, ticks, chn, v) ==
    CASE f = "tempo" -> Tempo(ticks, v)
      [] f = "voice" -> Program(ticks, chn, v)
      [] f = "vol" -> Controller(ticks, chn, MIDI_CC_MSB_VOLUME, v)
      [] f = "pan" -> Controller(ticks, chn, MIDI_CC_MSB_PAN, v)
      [] f = "bend" -> PitchBend(ticks, chn, v)
      [] f = "bendr" -> Controller(ticks, chn, MIDI_CC_EX_BENDR, v)
      [] f = "mod" -> Controller(ticks, chn, MIDI_CC_MSB_MOD, v)
      [] f = "modt" -> Controller(ticks, chn, MIDI_CC_EX_MODT, v)
      [] f = "tune" -> Controller(ticks, chn, MIDI_CC_EX_TUNE, v)
      [] f = "prio" -> Controller(ticks, chn, MIDI_CC_EX_PRIO, v)

(* ptrs: the ten events built at a loop end marker *)
loop_restore_events(e, sn) ==
    [j \in 1..Len(RestoreOrder) |->
        restore_event(RestoreOrder[j], e.ticks, e.chn, sn[RestoreOrder[j]])]

(* the input of the pass: a tick-sorted track with at most one loop start  *)
(* and one loop end marker (what the Event Interpreter inserts)            *)
MaxLoopTrackLen == 3

LoopTicks == {0, 1}
LoopChn == 1

LoopEvents(t) ==
    { Tempo(t, 250000), Program(t, LoopChn, 5), Program(t, LoopChn, 9),
      PitchBend(t, LoopChn, 1000),
      Controller(t, LoopChn, MIDI_CC_MSB_VOLUME, 50),
      Controller(t, LoopChn, MIDI_CC_MSB_PAN, 0),
      Controller(t, LoopChn, MIDI_CC_EX_BENDR, 12),
      Controller(t, LoopChn, MIDI_CC_MSB_MOD, 30),
      Controller(t, LoopChn, MIDI_CC_EX_MODT, 1),
      Controller(t, LoopChn, MIDI_CC_EX_TUNE, 70),
      Controller(t, LoopChn, MIDI_CC_EX_PRIO, 9),
      Controller(t, LoopChn, MIDI_CC_EX_LOOP, EX_LOOP_START),
      Controller(t, LoopChn, MIDI_CC_EX_LOOP, EX_LOOP_END),
      NoteOn(t, LoopChn, 60, 100) }

LastTick(trk) == IF trk = <<>> THEN 0 ELSE trk[Len(trk)].ticks

InitLoop ==
    /\ phase = "loop_input"
    /\ input = <<>> /\ mtrk = <<>> /\ idx = 1
    /\ snap = snap_init /\ loop_start_tick = NO_LOOP_START
    /\ InitIdleEmit /\ InitIdleRest

(* the next event of the track handed to the pass *)
LoopInput ==
    /\ phase = "loop_input"
    /\ Len(input) < MaxLoopTrackLen
    /\ \E t \in LoopTicks : \E e \in LoopEvents(t) :
          /\ t >= LastTick(input)
          /\ IsLoopStart(e) => \A i \in 1..Len(input) : ~IsLoopStart(input[i])
          /\ IsLoopEnd(e) => \A i \in 1..Len(input) : ~IsLoopEnd(input[i])
          /\ input' = Append(input, e)
          /\ mtrk' = Append(mtrk, e)
    /\ UNCHANGED <<phase, idx, loopVars, emitVars, restVars>>

(* the pass starts on the track: the locals are initialised *)
LoopBegin ==
    /\ phase = "loop_input"
    /\ phase' = "loop_walk"
    /\ idx' = 1
    /\ snap' = snap_init
    /\ loop_start_tick' = NO_LOOP_START
    /\ UNCHANGED <<input, mtrk, emitVars, restVars>>

(* one turn of `for (size_t itrk = 0; itrk < mtrk.midi_events.size(); itrk++)` *)
LoopStep ==
    /\ phase = "loop_walk"
    /\ idx <= Len(mtrk)
    /\ LET e == mtrk[idx]
       IN  IF IsLoopStart(e)
           THEN /\ loop_start_tick' = e.ticks
                /\ idx' = idx + 1
                /\ UNCHANGED <<snap, mtrk>>
           ELSE IF IsLoopEnd(e) /\ loop_end_splices(e, loop_start_tick)
           THEN /\ mtrk' = InsertAt(mtrk, idx, loop_restore_events(e, snap))
                /\ idx' = idx + Len(RestoreOrder) + 1
                /\ UNCHANGED <<snap, loop_start_tick>>
           ELSE /\ snap' = loop_snapshot(snap, loop_start_tick, e)
                /\ idx' = idx + 1
                /\ UNCHANGED <<loop_start_tick, mtrk>>
    /\ UNCHANGED <<phase, input, emitVars, restVars>>

(* the loop ends *)
LoopEnd ==
    /\ phase = "loop_walk"
    /\ idx > Len(mtrk)
    /\ phase' = "loop_done"
    /\ UNCHANGED <<trackVars, loopVars, emitVars, restVars>>

NextLoop == LoopInput \/ LoopBegin \/ LoopStep \/ LoopEnd

SpecLoop == InitLoop /\ [][NextLoop]_vars

(***************************************************************************)
(* C3 (as amended).  Loop-state law: with a LOOP_START marker at tick S    *)
(* and a LOOP_END marker at tick E > S, each of the ten restore events     *)
(* inserted at E carries the value of the last event of its kind with a    *)
(* tick <= S (the initial value when there is none): events at tick S      *)
(* count whether they stand before or after the marker.                    *)
(***************************************************************************)
Positions(trk, P(_)) == {i \in 1..Len(trk) : P(trk[i])}

SetMax(S) == CHOOSE x \in S : \A y \in S : y <= x

(* the value of the last event of kind f among the positions `ps` *)
LastValueAt(trk, f, ps) ==
    LET hits == {i \in ps : snap_field(trk[i]) = f}
    IN  IF hits = {} THEN snap_init[f] ELSE snap_value(trk[SetMax(hits)])

HasLoop ==
    /\ Positions(input, IsLoopStart) # {}
    /\ Positions(input, IsLoopEnd) # {}
    /\ input[SetMax(Positions(input, IsLoopEnd))].ticks
         > input[SetMax(Positions(input, IsLoopStart))].ticks

(* the ten events before the loop end marker carry the values want[f] *)
RestoredAre(want) ==
    LET p == SetMax(Positions(input, IsLoopEnd))
        e == input[p]
    IN  /\ Len(mtrk) = Len(input) + Len(RestoreOrder)
        /\ \A j \in 1..Len(RestoreOrder) :
              mtrk[p + j - 1] =
                  restore_event(RestoreOrder[j], e.ticks, e.chn, want[RestoreOrder[j]])
        /\ mtrk[p + Len(RestoreOrder)] = e

C3_RestoreUpToStartTick ==
    (phase = "loop_done" /\ HasLoop) =>
        LET S == input[SetMax(Positions(input, IsLoopStart))].ticks
        IN  RestoredAre([f \in DOMAIN snap_init |->
                LastValueAt(input, f, {i \in 1..Len(input) : input[i].ticks <= S})])

(* C3 as stated: the values are those just before the LOOP_START marker *)
C3_RestoreBeforeMarker ==
    (phase = "loop_done" /\ HasLoop) =>
        LET q == SetMax(Positions(input, IsLoopStart))
        IN  RestoredAre([f \in DOMAIN snap_init |->
                LastValueAt(input, f, 1..(q - 1))])

(* voice 9 at the loop start tick, after the marker: voice 9 is restored,   *)
(* where the state before the marker had voice 0                           *)
C3_Witness ==
    /\ phase = "loop_done"
    /\ input = << Controller(0, LoopChn, MIDI_CC_EX_LOOP, EX_LOOP_START),
                  Program(0, LoopChn, 9),
                  Controller(1, LoopChn, MIDI_CC_EX_LOOP, EX_LOOP_END) >>
    /\ mtrk[4] = Program(1, LoopChn, 9)

(***************************************************************************)
(* midi_to_agb (Bar Lowering): bar table from track 0, then every track    *)
(***************************************************************************)
(* uint32_t values are carried as their two's complement representatives,  *)
(* so a difference that wraps below zero is a negative number here and     *)
(* stands for that number + 2^32; U32Geq is the unsigned `>=` on them      *)
U32Geq(a, b) ==
    IF a < 0 THEN (b >= 0 \/ a >= b) ELSE (b >= 0 /\ a >= b)

MIDI_NOTE_PARSE_INIT == 0
MIDI_NOTE_PARSE_SHORT == 1
MIDI_NOTE_PARSE_TIE == 2

(* struct bar *)
bar(start_tick, num_ticks) == [start_tick |-> start_tick, num_ticks |-> num_ticks]

(* struct agb_bar, as its constructor leaves it *)
agb_bar == [events |-> <<>>, is_referenced |-> FALSE, does_reference |-> FALSE]

Back(sq) == sq[Len(sq)]
SetBack(sq, x) == [sq EXCEPT ![Len(sq)] = x]

(* `tev.get_numerator() * 96 / (1 << tev.get_denominator())` *)
bar_len_of(e) == (e.a * 96) \div (2 ^ e.b)

(* `mtrk[ievt]->ticks - prev_tick`, prev_tick being the previous event's   *)
(* tick (0 before the first)                                               *)
diff_ticks(trk, i) == trk[i].ticks - (IF i = 1 THEN 0 ELSE trk[i - 1].ticks)

(* one turn of `while (bar_table.back().num_ticks >= current_bar_len)` *)
bar_freeze(bt, len) ==
    LET new_num_ticks == Back(bt).num_ticks - len
        frozen == SetBack(bt, [Back(bt) EXCEPT !.num_ticks = len])
    IN  Append(frozen, bar(Back(frozen).start_tick + Back(frozen).num_ticks,
                           new_num_ticks))

(* the bar a time signature opens when it arrives in a bar already begun *)
bar_split(bt) ==
    IF Back(bt).num_ticks > 0
    THEN Append(bt, bar(Back(bt).num_ticks + Back(bt).num_ticks, 0))
    ELSE bt

(* the tracks handed to the pass.  What the earlier passes guarantee: each *)
(* track is sorted by tick, holds a note-on (midi_remove_empty_tracks) and *)
(* ends with a dummy at the score's last tick                              *)
(* (midi_read_infile_arguments); time signatures stand in track 0 only, at *)
(* most one per tick and before the other events of that tick.            *)
MaxLowerLen == 3
MaxBars == 20

LowerDeltas == {0, 4, 96}
LowerChn == 0
LowerKey == 60
LowerVel == 100

LowerEvents(t) ==
    { TimeSig(t, 1, 2), Controller(t, LowerChn, MIDI_CC_MSB_VOLUME, 50),
      NoteOn(t, LowerChn, LowerKey, LowerVel),
      NoteOff(t, LowerChn, LowerKey, MIDI_NOTE_PARSE_INIT) }

(* the other track of the score, given the score's last tick *)
OtherTracks(last) ==
    { << NoteOn(0, LowerChn + 1, LowerKey, LowerVel),
         NoteOff(last, LowerChn + 1, LowerKey, MIDI_NOTE_PARSE_INIT),
         Dummy(last) >> }
    \cup
    { << Controller(t, LowerChn + 1, MIDI_CC_MSB_VOLUME, 50),
         NoteOn(t, LowerChn + 1, LowerKey, LowerVel),
         NoteOff(t, LowerChn + 1, LowerKey, MIDI_NOTE_PARSE_INIT),
         Dummy(last) >> : t \in {u \in LowerDeltas : u > 0 /\ u <= last} }

InitLower ==
    /\ phase = "lower_input"
    /\ mf = << <<>> >> /\ bar_table = <<>> /\ current_bar_len = 0
    /\ itrk = 1 /\ current_bar = 0 /\ tick_counter = 0
    /\ idx = 1 /\ input = <<>> /\ mtrk = <<>>
    /\ InitIdleSong /\ InitIdleLoop /\ InitIdleEmit /\ InitIdleOpt /\ InitIdleDedup
    /\ InitIdleRed /\ InitIdleInterp /\ InitIdleFilter

lowerOthers ==
    <<input, mtrk, loopVars, emitVars, optVars, dedupVars, redVars, interpVars,
      filterVars>>

(* the next event of track 0 *)
LowerInput ==
    /\ phase = "lower_input"
    /\ Len(mf[1]) < MaxLowerLen
    /\ \E d \in LowerDeltas : \E e \in LowerEvents(LastTick(mf[1]) + d) :
          /\ e.type = "timesig" => (d > 0 \/ mf[1] = <<>>)
          /\ mf' = [mf EXCEPT ![1] = Append(@, e)]
    /\ UNCHANGED <<phase, idx, bar_table, current_bar_len, itrk, current_bar,
                   tick_counter, songVars, lowerOthers>>

(* the score is complete; midi_to_agb starts: `bar_table.emplace_back(0, 0)` *)
LowerBegin ==
    /\ phase = "lower_input"
    /\ \E i \in 1..Len(mf[1]) : mf[1][i].type = "noteon"
    /\ LET last == LastTick(mf[1])
       IN  \E others \in {<<>>} \cup {<<o>> : o \in OtherTracks(last)} :
              mf' = <<Append(mf[1], Dummy(last))>> \o others
    /\ bar_table' = <<bar(0, 0)>>
    /\ current_bar_len' = 96
    /\ idx' = 1
    /\ phase' = "bar_for"
    /\ UNCHANGED <<itrk, current_bar, tick_counter, songVars, lowerOthers>>

(* top of the body of the bar table loop: the event's ticks are added *)
BarTableEvent ==
    /\ phase = "bar_for"
    /\ idx <= Len(mf[1])
    /\ bar_table' = SetBack(bar_table,
          [Back(bar_table) EXCEPT !.num_ticks = @ + diff_ticks(mf[1], idx)])
    /\ phase' = "bar_while"
    /\ UNCHANGED <<idx, mf, current_bar_len, itrk, current_bar, tick_counter,
                   songVars, lowerOthers>>

(* one turn of the while loop *)
BarTableFreeze ==
    /\ phase = "bar_while"
    /\ Back(bar_table).num_ticks >= current_bar_len
    /\ Len(bar_table) < MaxBars
    /\ bar_table' = bar_freeze(bar_table, current_bar_len)
    /\ UNCHANGED <<phase, idx, mf, current_bar_len, itrk, current_bar,
                   tick_counter, songVars, lowerOthers>>

(* the while loop is left: the time signature branch, then `ievt++` *)
BarTableSig ==
    /\ phase = "bar_while"
    /\ Back(bar_table).num_ticks < current_bar_len
    /\ IF mf[1][idx].type = "timesig"
       THEN /\ current_bar_len' = bar_len_of(mf[1][idx])
            /\ bar_table' = bar_split(bar_table)
       ELSE UNCHANGED <<current_bar_len, bar_table>>
    /\ idx' = idx + 1
    /\ phase' = "bar_for"
    /\ UNCHANGED <<mf, itrk, current_bar, tick_counter, songVars, lowerOthers>>

(* the loop is left: the last bar is extended, and the first track begins *)
BarTableDone ==
    /\ phase = "bar_for"
    /\ idx > Len(mf[1])
    /\ bar_table' = SetBack(bar_table,
          [Back(bar_table) EXCEPT !.num_ticks = current_bar_len])
    /\ as_tracks' = << <<agb_bar>> >>
    /\ itrk' = 1 /\ idx' = 1 /\ current_bar' = 0 /\ tick_counter' = 0
    /\ phase' = "lower"
    /\ UNCHANGED <<mf, current_bar_len, lowerOthers>>

(* add_wait_event on the last bar of the track being built *)
add_wait_event(bars, len) ==
    SetBack(bars, [Back(bars) EXCEPT !.events = Append(@, AgbEv("WAIT", len, 0, 0))])

add_events(bars, es) ==
    SetBack(bars, [Back(bars) EXCEPT !.events = @ \o es])

(* a wait to the end of the bar that covers the whole bar *)
bar_fill_whole(num_ticks, tc) == num_ticks

(* `bar_table[current_bar].num_ticks - tick_counter` *)
bar_fill(num_ticks, tc) == num_ticks - tc

(* `while (ticks_to_event > 0)`: waits up to the event's tick, closing     *)
(* bars on the way; ok is FALSE when `assert(current_bar <                 *)
(* bar_table.size())` fails after a bar was closed                         *)
RECURSIVE lower_wait(_, _, _, _, _)
lower_wait(bt, ticks, cb, tc, bars) ==
    LET ticks_to_event == ticks - (bt[cb + 1].start_tick + tc)
    IN  IF ticks_to_event = 0
        THEN [ok |-> TRUE, bars |-> bars, current_bar |-> cb, tick_counter |-> tc]
        ELSE IF U32Geq(tc + ticks_to_event, bt[cb + 1].num_ticks)
        THEN LET closed == Append(add_wait_event(bars,
                                bar_fill(bt[cb + 1].num_ticks, tc)), agb_bar)
             IN  IF cb + 1 < Len(bt)
                 THEN lower_wait(bt, ticks, cb + 1, 0, closed)
                 ELSE [ok |-> FALSE, bars |-> closed, current_bar |-> cb + 1,
                       tick_counter |-> 0]
        ELSE [ok |-> TRUE, bars |-> add_wait_event(bars, ticks_to_event),
              current_bar |-> cb, tick_counter |-> tc + ticks_to_event]

(* std::round of a non-negative quotient n / d *)
round_div(n, d) == (2 * n + d) \div (2 * d)

(* the TEMPO operand: get_bpm() / 2, clamped to 0..255, rounded *)
lower_tempo(us) ==
    IF us = 0 \/ 30000000 >= 255 * us THEN 255 ELSE round_div(30000000, us)

(* the BEND operand: pitch / 128 rounded, clamped to -64..63 *)
lower_bend(pitch) ==
    LET r == IF pitch >= 0 THEN round_div(pitch, 128) ELSE 0 - round_div(0 - pitch, 128)
    IN  IF r < -64 THEN -64 ELSE IF r > 63 THEN 63 ELSE r

(* the switch over cev.get_controller() *)
lower_controller(e) ==
    CASE IsLoopStart(e) -> <<AgbEv("LOOP_START", 0, 0, 0)>>
      [] IsLoopEnd(e) -> <<AgbEv("LOOP_END", 0, 0, 0)>>
      [] IsCtrl(e, MIDI_CC_EX_PRIO) -> <<AgbEv("PRIO", e.b, 0, 0)>>
      [] IsCtrl(e, MIDI_CC_MSB_VOLUME) -> <<AgbEv("VOL", e.b, 0, 0)>>
      [] IsCtrl(e, MIDI_CC_MSB_PAN) -> <<AgbEv("PAN", s8(e.b - 64), 0, 0)>>
      [] IsCtrl(e, MIDI_CC_EX_BENDR) -> <<AgbEv("BENDR", e.b, 0, 0)>>
      [] IsCtrl(e, MIDI_CC_EX_LFOS) -> <<AgbEv("LFOS", e.b, 0, 0)>>
      [] IsCtrl(e, MIDI_CC_EX_LFODL) -> <<AgbEv("LFODL", e.b, 0, 0)>>
      [] IsCtrl(e, MIDI_CC_MSB_MOD) -> <<AgbEv("MOD", e.b, 0, 0)>>
      [] IsCtrl(e, MIDI_CC_EX_MODT) -> <<AgbEv("MODT", e.b, 0, 0)>>
      [] IsCtrl(e, MIDI_CC_EX_TUNE) -> <<AgbEv("TUNE", s8(e.b - 64), 0, 0)>>
      [] OTHER -> <<>>

(* get_note_length that takes the first later note-off of any key *)
get_note_length_any_key(trk, noteon_index) ==
    LET offs == {i \in (noteon_index + 1)..Len(trk) :
                    /\ trk[i].type = "noteoff"
                    /\ trk[i].b = MIDI_NOTE_PARSE_INIT}
    IN  IF offs = {} THEN 0 ELSE CHOOSE i \in offs : \A j \in offs : i <= j

(* get_note_length: the index of the first later note-off of the same key  *)
(* still marked INIT, 0 when there is none                                 *)
get_note_length(trk, noteon_index) ==
    LET offs == {i \in (noteon_index + 1)..Len(trk) :
                    /\ trk[i].type = "noteoff"
                    /\ trk[i].a = trk[noteon_index].a
                    /\ trk[i].b = MIDI_NOTE_PARSE_INIT}
    IN  IF offs = {} THEN 0 ELSE CHOOSE i \in offs : \A j \in offs : i <= j

(* a lowering that lets every note-off pass *)
noteoff_tolerated(e) == FALSE

(* the note-off was claimed by no note-on before it *)
noteoff_without_noteon(e) == e.b = MIDI_NOTE_PARSE_INIT

(* the translation of the event at ievt: the events appended to the bar,   *)
(* the track with its note-off marks, and whether die() is called          *)
lower_event(trk, ievt) ==
    LET e == trk[ievt]
        off == get_note_length(trk, ievt)
    IN  CASE e.type = "controller" ->
                [die |-> FALSE, trk |-> trk, evs |-> lower_controller(e)]
          [] e.type = "tempo" ->
                [die |-> FALSE, trk |-> trk,
                 evs |-> <<AgbEv("TEMPO", lower_tempo(e.a), 0, 0)>>]
          [] e.type = "program" ->
                [die |-> FALSE, trk |-> trk, evs |-> <<AgbEv("VOICE", e.a, 0, 0)>>]
          [] e.type = "pitchbend" ->
                [die |-> FALSE, trk |-> trk,
                 evs |-> <<AgbEv("BEND", lower_bend(e.a), 0, 0)>>]
          [] e.type = "noteon" ->
                IF off = 0 THEN [die |-> TRUE, trk |-> trk, evs |-> <<>>]
                ELSE IF trk[off].ticks - e.ticks > 96
                THEN [die |-> FALSE,
                      trk |-> [trk EXCEPT ![off].b = MIDI_NOTE_PARSE_TIE],
                      evs |-> <<AgbEv("TIE", e.a, e.b, 0)>>]
                ELSE [die |-> FALSE,
                      trk |-> [trk EXCEPT ![off].b = MIDI_NOTE_PARSE_SHORT],
                      evs |-> <<AgbEv("NOTE", Max(trk[off].ticks - e.ticks, 1),
                                      e.a, e.b)>>]
          [] e.type = "noteoff" ->
                IF noteoff_without_noteon(e)
                THEN [die |-> TRUE, trk |-> trk, evs |-> <<>>]
                ELSE IF e.b = MIDI_NOTE_PARSE_TIE
                THEN [die |-> FALSE, trk |-> trk, evs |-> <<AgbEv("EOT", e.a, 0, 0)>>]
                ELSE [die |-> FALSE, trk |-> trk, evs |-> <<>>]
          [] OTHER -> [die |-> FALSE, trk |-> trk, evs |-> <<>>]

(* the two `continue`s at the top of the loop body *)
lower_skips(trk, ievt) ==
    \/ trk[ievt].type = "dummy" /\ ievt # Len(trk)
    \/ trk[ievt].type = "noteoff" /\ trk[ievt].b = MIDI_NOTE_PARSE_SHORT

(* one turn of the event loop of the track itrk *)
LowerEvent ==
    /\ phase = "lower"
    /\ idx <= Len(mf[itrk])
    /\ IF lower_skips(mf[itrk], idx)
       THEN /\ idx' = idx + 1
            /\ UNCHANGED <<phase, mf, current_bar, tick_counter, as_tracks>>
       ELSE LET w == lower_wait(bar_table, mf[itrk][idx].ticks, current_bar,
                                tick_counter, as_tracks[itrk])
                l == lower_event(mf[itrk], idx)
            IN  /\ current_bar' = w.current_bar
                /\ tick_counter' = w.tick_counter
                /\ IF ~w.ok
                   THEN /\ phase' = "abort"
                        /\ as_tracks' = [as_tracks EXCEPT ![itrk] = w.bars]
                        /\ UNCHANGED <<mf, idx>>
                   ELSE IF l.die
                   THEN /\ phase' = "die"
                        /\ as_tracks' = [as_tracks EXCEPT ![itrk] = w.bars]
                        /\ UNCHANGED <<mf, idx>>
                   ELSE /\ as_tracks' =
                              [as_tracks EXCEPT ![itrk] = add_events(w.bars, l.evs)]
                        /\ mf' = [mf EXCEPT ![itrk] = l.trk]
                        /\ idx' = idx + 1
                        /\ UNCHANGED phase
    /\ UNCHANGED <<bar_table, current_bar_len, itrk, lowerOthers>>

(* the track is done: the next one starts with a first, empty bar *)
LowerNextTrack ==
    /\ phase = "lower"
    /\ idx > Len(mf[itrk])
    /\ itrk < Len(mf)
    /\ itrk' = itrk + 1
    /\ as_tracks' = Append(as_tracks, <<agb_bar>>)
    /\ idx' = 1 /\ current_bar' = 0 /\ tick_counter' = 0
    /\ UNCHANGED <<phase, mf, bar_table, current_bar_len, lowerOthers>>

(* midi_to_agb returns *)
LowerDone ==
    /\ phase = "lower"
    /\ idx > Len(mf[itrk])
    /\ itrk = Len(mf)
    /\ phase' = "lower_done"
    /\ UNCHANGED <<idx, lowerVars, songVars, lowerOthers>>

NextLower ==
    \/ LowerInput \/ LowerBegin
    \/ BarTableEvent \/ BarTableFreeze \/ BarTableSig \/ BarTableDone
    \/ LowerEvent \/ LowerNextTrack \/ LowerDone

SpecLower == InitLower /\ [][NextLower]_vars

(***************************************************************************)
(* SpecPair: midi_to_agb on one track of at most MaxPairLen note-ons and   *)
(* note-offs of two keys, in 4/4 time.                                     *)
(***************************************************************************)
MaxPairLen == 4

PairDeltas == {0, 1, 96}
PairKeys == {60, 61}

PairEvents(t) ==
    {NoteOn(t, LowerChn, k, LowerVel) : k \in PairKeys}
    \cup {NoteOff(t, LowerChn, k, MIDI_NOTE_PARSE_INIT) : k \in PairKeys}

(* the next event of the track *)
PairInput ==
    /\ phase = "lower_input"
    /\ Len(mf[1]) < MaxPairLen
    /\ \E d \in PairDeltas : \E e \in PairEvents(LastTick(mf[1]) + d) :
          mf' = [mf EXCEPT ![1] = Append(@, e)]
    /\ UNCHANGED <<phase, idx, bar_table, current_bar_len, itrk, current_bar,
                   tick_counter, songVars, lowerOthers>>

(* the track is complete: it ends with the dummy of the Event Interpreter; *)
(* midi_to_agb starts                                                      *)
PairBegin ==
    /\ phase = "lower_input"
    /\ \E i \in 1..Len(mf[1]) : mf[1][i].type = "noteon"
    /\ mf' = <<Append(mf[1], Dummy(LastTick(mf[1])))>>
    /\ bar_table' = <<bar(0, 0)>>
    /\ current_bar_len' = 96
    /\ idx' = 1
    /\ phase' = "bar_for"
    /\ UNCHANGED <<itrk, current_bar, tick_counter, songVars, lowerOthers>>

NextPair ==
    \/ PairInput \/ PairBegin
    \/ BarTableEvent \/ BarTableFreeze \/ BarTableSig \/ BarTableDone
    \/ LowerEvent \/ LowerDone

SpecPair == InitLower /\ [][NextPair]_vars

(***************************************************************************)
(* SpecBars: the bar table loop of midi_to_agb on a track 0 with time      *)
(* signatures of several numerators and denominators, those included for   *)
(* which numerator * 96 / 2^denominator is 0                               *)
(***************************************************************************)
BarsSignatures == {<<4, 2>>, <<3, 3>>, <<0, 2>>, <<1, 7>>}

BarsEvents(t) ==
    {TimeSig(t, s[1], s[2]) : s \in BarsSignatures}
    \cup {NoteOn(t, LowerChn, LowerKey, LowerVel)}

(* the next event of track 0 *)
BarsInput ==
    /\ phase = "lower_input"
    /\ Len(mf[1]) < MaxLowerLen
    /\ \E d \in LowerDeltas : \E e \in BarsEvents(LastTick(mf[1]) + d) :
          /\ e.type = "timesig" => (d > 0 \/ mf[1] = <<>>)
          /\ mf' = [mf EXCEPT ![1] = Append(@, e)]
    /\ UNCHANGED <<phase, idx, bar_table, current_bar_len, itrk, current_bar,
                   tick_counter, songVars, lowerOthers>>

NextBars ==
    \/ BarsInput \/ PairBegin
    \/ BarTableEvent \/ BarTableFreeze \/ BarTableSig \/ BarTableDone

SpecBars == InitLower /\ [][NextBars]_vars

(***************************************************************************)
(* C4 (as amended).  After Bar Lowering, for every track and every bar     *)
(* index i of that track but the track's last, the WAIT lengths of bar i   *)
(* sum to bar_table[i].num_ticks; in the track's last bar they sum to less *)
(* than bar_table[i].num_ticks (the bar ends at the score's last event).   *)
(***************************************************************************)
RECURSIVE WaitSum(_)
WaitSum(es) ==
    IF es = <<>> THEN 0
    ELSE (IF Head(es).type = "WAIT" THEN Head(es).a ELSE 0) + WaitSum(Tail(es))

BarIsFull(t, i) == WaitSum(as_tracks[t][i].events) = bar_table[i].num_ticks

C4_BarsFullButLast ==
    phase = "lower_done" =>
        \A t \in 1..Len(as_tracks) :
            /\ Len(as_tracks[t]) <= Len(bar_table)
            /\ \A i \in 1..(Len(as_tracks[t]) - 1) : BarIsFull(t, i)
            /\ LET n == Len(as_tracks[t])
               IN  /\ WaitSum(as_tracks[t][n].events) >= 0
                   /\ WaitSum(as_tracks[t][n].events) < bar_table[n].num_ticks

(* C4 as stated: every bar, the last included, is full *)
C4_AllBarsFull ==
    phase = "lower_done" =>
        \A t \in 1..Len(as_tracks) : \A i \in 1..Len(as_tracks[t]) : BarIsFull(t, i)

(* two tracks lowered over a table of several bars *)
C4_Witness ==
    /\ phase = "lower_done"
    /\ Len(as_tracks) = 2
    /\ Len(bar_table) >= 3
    /\ \A t \in 1..2 : Len(as_tracks[t]) = Len(bar_table)
    /\ \E i \in 1..Len(bar_table) : bar_table[i].num_ticks # 96

(***************************************************************************)
(* agb_optimize (Note-Order Fixup)                                         *)
(***************************************************************************)
(* the events left where they are *)
rotate_eot_none(events, first, ievt) == events

(* the EOT at ievt changes places with the event at `first` *)
rotate_eot_swap(events, first, ievt) ==
    [events EXCEPT ![first] = events[ievt], ![ievt] = events[first]]

(* the EOT at ievt is moved to `first`, the events from `first` up to it   *)
(* are shifted one place to the right                                      *)
rotate_eot(events, first, ievt) ==
    SubSeq(events, 1, first - 1) \o <<events[ievt]>>
        \o SubSeq(events, first, ievt - 1) \o SubSeq(events, ievt + 1, Len(events))

(* one turn of the event loop of a bar *)
optimize_step(events, first, ievt) ==
    IF events[ievt].type = "WAIT"
    THEN [events |-> events, first |-> ievt + 1]
    ELSE IF events[ievt].type = "EOT"
    THEN IF ievt - first = 0
         THEN [events |-> events, first |-> ievt + 1]
         ELSE [events |-> rotate_eot(events, first, ievt), first |-> first + 1]
    ELSE [events |-> events, first |-> first]

(* the bars handed to the pass: one track of one or two bars *)
MaxOptLen == 5

OptEvents ==
    { AgbEv("WAIT", 24, 0, 0), AgbEv("EOT", 60, 0, 0), AgbEv("EOT", 61, 0, 0),
      AgbEv("NOTE", 24, 60, 100), AgbEv("TIE", 61, 100, 0), AgbEv("VOL", 50, 0, 0) }

SongLen(trk) == SumSeq([i \in 1..Len(trk) |-> Len(trk[i].events)])

InitOpt ==
    /\ phase = "opt_input"
    /\ as_tracks = << <<agb_bar>> >>
    /\ first_ev_at_tick = 1 /\ ibar = 1 /\ itrk = 1 /\ idx = 1
    /\ input = <<>> /\ mtrk = <<>>
    /\ mf = <<>> /\ bar_table = <<>> /\ current_bar_len = 0
    /\ current_bar = 0 /\ tick_counter = 0
    /\ compression_table = {} /\ fout = <<>>
    /\ InitIdleLoop /\ InitIdleEmit /\ InitIdleRed
    /\ InitIdleInterp /\ InitIdleFilter

optOthers ==
    <<mtrk, mf, bar_table, current_bar_len, current_bar, tick_counter,
      compression_table, fout, loopVars, emitVars, redVars, interpVars,
      filterVars>>

(* the next event of the last bar *)
OptInput ==
    /\ phase = "opt_input"
    /\ SongLen(as_tracks[1]) < MaxOptLen
    /\ \E e \in OptEvents : as_tracks' = [as_tracks EXCEPT ![1] = add_events(@, <<e>>)]
    /\ UNCHANGED <<phase, input, idx, itrk, ibar, first_ev_at_tick, optOthers>>

(* a bar is closed by a WAIT and the next bar begins *)
OptInputBar ==
    /\ phase = "opt_input"
    /\ Len(as_tracks[1]) = 1
    /\ SongLen(as_tracks[1]) < MaxOptLen
    /\ as_tracks' = [as_tracks EXCEPT ![1] =
          Append(add_events(@, <<AgbEv("WAIT", 24, 0, 0)>>), agb_bar)]
    /\ UNCHANGED <<phase, input, idx, itrk, ibar, first_ev_at_tick, optOthers>>

(* agb_optimize starts on the first bar *)
OptBegin ==
    /\ phase = "opt_input"
    /\ phase' = "opt"
    /\ input' = as_tracks
    /\ itrk' = 1 /\ ibar' = 1 /\ idx' = 1 /\ first_ev_at_tick' = 1
    /\ UNCHANGED <<as_tracks, optOthers>>

(* one turn of `for (size_t ievt = 0; ievt < abar.events.size(); ievt++)` *)
OptStep ==
    /\ phase = "opt"
    /\ idx <= Len(as_tracks[itrk][ibar].events)
    /\ LET r == optimize_step(as_tracks[itrk][ibar].events, first_ev_at_tick, idx)
       IN  /\ as_tracks' = [as_tracks EXCEPT ![itrk][ibar].events = r.events]
           /\ first_ev_at_tick' = r.first
    /\ idx' = idx + 1
    /\ UNCHANGED <<phase, input, itrk, ibar, optOthers>>

(* the bar is done: the next bar starts with first_ev_at_tick = 0 *)
OptNextBar ==
    /\ phase = "opt"
    /\ idx > Len(as_tracks[itrk][ibar].events)
    /\ ibar < Len(as_tracks[itrk])
    /\ ibar' = ibar + 1
    /\ idx' = 1 /\ first_ev_at_tick' = 1
    /\ UNCHANGED <<phase, input, itrk, as_tracks, optOthers>>

(* the last bar of the last track is done *)
OptDone ==
    /\ phase = "opt"
    /\ idx > Len(as_tracks[itrk][ibar].events)
    /\ ibar = Len(as_tracks[itrk])
    /\ itrk = Len(as_tracks)
    /\ phase' = "opt_done"
    /\ UNCHANGED <<input, idx, itrk, ibar, first_ev_at_tick, as_tracks, optOthers>>

NextOpt == OptInput \/ OptInputBar \/ OptBegin \/ OptStep \/ OptNextBar \/ OptDone

SpecOpt == InitOpt /\ [][NextOpt]_vars

(***************************************************************************)
(* C5.  After agb_optimize, in every bar and at every tick position of it  *)
(* (a run of events with no WAIT inside), every EOT precedes every NOTE    *)
(* and every TIE.                                                          *)
(***************************************************************************)
SameTick(events, i, j) == \A k \in i..j : events[k].type # "WAIT"

EotFirst(events) ==
    \A i \in 1..Len(events) : \A j \in (i + 1)..Len(events) :
        (events[i].type \in {"NOTE", "TIE"} /\ events[j].type = "EOT")
            => ~SameTick(events, i, j)

C5_EotBeforeNotes ==
    phase = "opt_done" =>
        \A t \in 1..Len(as_tracks) : \A b \in 1..Len(as_tracks[t]) :
            EotFirst(as_tracks[t][b].events)

(* a bar where an EOT stood behind a NOTE and a TIE of its tick, and one   *)
(* behind a WAIT, has been put in order                                    *)
C5_Witness ==
    /\ phase = "opt_done"
    /\ input[1][1].events =
          << AgbEv("NOTE", 24, 60, 100), AgbEv("TIE", 61, 100, 0),
             AgbEv("EOT", 60, 0, 0), AgbEv("WAIT", 24, 0, 0), AgbEv("EOT", 61, 0, 0) >>
    /\ as_tracks[1][1].events =
          << AgbEv("EOT", 60, 0, 0), AgbEv("NOTE", 24, 60, 100),
             AgbEv("TIE", 61, 100, 0), AgbEv("WAIT", 24, 0, 0), AgbEv("EOT", 61, 0, 0) >>

(***************************************************************************)
(* write_agb (Pattern Deduplicator + Emitter).  fout holds the lines of    *)
(* the track bodies: the track label, KEYSH, per bar the `@ nnn ---` line   *)
(* and what follows it, FINE.  The file header and the song footer hold no *)
(* bar data and are left out.  Tracks and bars are numbered from 1.        *)
(***************************************************************************)
(* agb_bar::size *)
bar_size(events) == SumSeq([i \in 1..Len(events) |-> ev_size(events[i])])

(* a scan for loop markers that finds none *)
has_loop_marker_never(events) == FALSE

(* the scan for LOOP_END / LOOP_START *)
has_loop_marker(events) ==
    \E i \in 1..Len(events) : events[i].type \in {"LOOP_END", "LOOP_START"}

(* the bar takes part in the compression: it reaches the insert *)
is_candidate(events) ==
    /\ Len(events) # 0
    /\ ~(bar_size(events) <= 5)
    /\ ~has_loop_marker(events)

(* compression_table holds one entry per distinct bar content *)
table_has(table, events) == \E x \in table : x.events = events

(* compression_table.find *)
table_find(table, events) == CHOOSE x \in table : x.events = events

(* an insert that overwrites the entry of an equal bar *)
table_insert_last(table, events, t, b) ==
    {x \in table : x.events # events} \cup {[events |-> events, track |-> t, bar |-> b]}

(* compression_table.insert: an equal bar already there is left alone *)
table_insert(table, events, t, b) ==
    IF table_has(table, events) THEN table
    ELSE table \cup {[events |-> events, track |-> t, bar |-> b]}

(* write_event over the events of a bar *)
RECURSIVE write_events(_, _)
write_events(st, events) ==
    IF events = <<>> THEN [st |-> st, out |-> <<>>]
    ELSE LET r    == write_event(st, Head(events))
             rest == write_events(r.st, Tail(events))
         IN  [st |-> rest.st, out |-> r.out \o rest.out]

(* the body of the bar loop of the emitter, after the assertion *)
write_bar(st, table, abar, t, b) ==
    LET label == IF abar.is_referenced THEN <<Line("LABEL", 0, <<t, b>>)>> ELSE <<>>
        st1   == IF abar.is_referenced THEN agb_state_reset ELSE st
        body  == IF ~abar.does_reference
                 THEN write_events(st1, abar.events)
                 ELSE [st  |-> agb_state_reset,
                       out |-> <<Line("PATT", 0,
                                  <<table_find(table, abar.events).track,
                                    table_find(table, abar.events).bar>>)>>]
        pend  == IF abar.is_referenced THEN <<Line("PEND", 0, <<>>)>> ELSE <<>>
    IN  [st |-> body.st, out |-> <<Line("BAR", 0, <<b>>)>> \o label \o body.out \o pend]

(* the song handed to the pass: up to three tracks of equally many bars;   *)
(* every bar but a track's last ends with the WAIT that closed it, and     *)
(* only a track's last bar can be empty                                    *)
MaxSongBars == 5

BarPool ==
    { << AgbEv("NOTE", 24, 60, 100), AgbEv("WAIT", 96, 0, 0) >>,
      << AgbEv("NOTE", 24, 60, 100), AgbEv("VOL", 50, 0, 0), AgbEv("WAIT", 96, 0, 0) >>,
      << AgbEv("VOL", 50, 0, 0), AgbEv("NOTE", 24, 61, 100), AgbEv("WAIT", 96, 0, 0) >>,
      << AgbEv("LOOP_START", 0, 0, 0), AgbEv("NOTE", 24, 60, 100),
         AgbEv("VOL", 50, 0, 0), AgbEv("WAIT", 96, 0, 0) >>,
      << AgbEv("NOTE", 24, 60, 100), AgbEv("WAIT", 24, 0, 0),
         AgbEv("LOOP_END", 0, 0, 0), AgbEv("WAIT", 72, 0, 0) >> }

NumBars == SumSeq([t \in 1..Len(as_tracks) |-> Len(as_tracks[t])])

InitDedup ==
    /\ phase = "dedup_input"
    /\ as_tracks = << <<>> >>
    /\ ibar = 1 /\ itrk = 1 /\ compression_table = {} /\ fout = <<>>
    /\ first_ev_at_tick = 1 /\ idx = 1
    /\ input = <<>> /\ mtrk = <<>>
    /\ mf = <<>> /\ bar_table = <<>> /\ current_bar_len = 0
    /\ current_bar = 0 /\ tick_counter = 0
    /\ InitIdleLoop /\ InitIdleEmit /\ InitIdleRed
    /\ InitIdleInterp /\ InitIdleFilter

dedupOthers ==
    <<mtrk, idx, mf, bar_table, current_bar_len, current_bar, tick_counter,
      first_ev_at_tick, loopVars, ev, lines, dec, decoded, redVars, interpVars,
      filterVars>>

(* the next bar of the last track *)
DedupInput ==
    /\ phase = "dedup_input"
    /\ NumBars < MaxSongBars
    /\ \E b \in BarPool :
          as_tracks' = [as_tracks EXCEPT ![Len(as_tracks)] =
                            Append(@, [agb_bar EXCEPT !.events = b])]
    /\ UNCHANGED <<phase, input, itrk, ibar, compression_table, fout, state,
                   dedupOthers>>

(* the next track *)
DedupInputTrack ==
    /\ phase = "dedup_input"
    /\ Back(as_tracks) # <<>>
    /\ Len(as_tracks) < 3
    /\ NumBars < MaxSongBars
    /\ as_tracks' = Append(as_tracks, <<>>)
    /\ UNCHANGED <<phase, input, itrk, ibar, compression_table, fout, state,
                   dedupOthers>>

(* write_agb starts; `empties` are the tracks whose last bar is empty *)
WriteBegin ==
    /\ phase = "dedup_input"
    /\ \A t \in 1..Len(as_tracks) :
          Len(as_tracks[t]) = Len(as_tracks[1]) /\ Len(as_tracks[t]) >= 1
    /\ \E empties \in SUBSET (1..Len(as_tracks)) :
          /\ empties # {} => Len(as_tracks[1]) >= 2
          /\ as_tracks' = [t \in 1..Len(as_tracks) |->
                IF t \in empties THEN SetBack(as_tracks[t], agb_bar)
                ELSE as_tracks[t]]
          /\ input' = as_tracks'
    /\ phase' = "fill"
    /\ itrk' = 1 /\ ibar' = 1
    /\ UNCHANGED <<compression_table, fout, state, dedupOthers>>

(* one turn of the bar loop that fills the compression table *)
FillBar ==
    /\ phase = "fill"
    /\ ibar <= Len(as_tracks[itrk])
    /\ LET events == as_tracks[itrk][ibar].events
           first  == table_find(compression_table, events)
       IN  IF Len(events) = 0 /\ ibar # Len(as_tracks[itrk])
           THEN /\ phase' = "abort"
                /\ UNCHANGED <<compression_table, as_tracks, ibar>>
           ELSE /\ ibar' = ibar + 1
                /\ phase' = phase
                /\ IF is_candidate(events)
                   THEN /\ compression_table' =
                              table_insert(compression_table, events, itrk, ibar)
                        /\ IF table_has(compression_table, events)
                           THEN as_tracks' =
                                  [[as_tracks EXCEPT
                                      ![first.track][first.bar].is_referenced = TRUE]
                                   EXCEPT ![itrk][ibar].does_reference = TRUE]
                           ELSE UNCHANGED as_tracks
                   ELSE UNCHANGED <<compression_table, as_tracks>>
    /\ UNCHANGED <<input, itrk, fout, state, dedupOthers>>

(* the next track of the fill loop *)
FillNextTrack ==
    /\ phase = "fill"
    /\ ibar > Len(as_tracks[itrk])
    /\ itrk < Len(as_tracks)
    /\ itrk' = itrk + 1 /\ ibar' = 1
    /\ UNCHANGED <<phase, input, as_tracks, compression_table, fout, state,
                   dedupOthers>>

(* the table is filled; the track loop of the emitter starts *)
FillDone ==
    /\ phase = "fill"
    /\ ibar > Len(as_tracks[itrk])
    /\ itrk = Len(as_tracks)
    /\ phase' = "write_track"
    /\ itrk' = 1 /\ ibar' = 1
    /\ UNCHANGED <<input, as_tracks, compression_table, fout, state, dedupOthers>>

(* a track begins: `agb_state state;`, the track label and KEYSH *)
WriteTrack ==
    /\ phase = "write_track"
    /\ state' = agb_state_reset
    /\ fout' = fout \o <<Line("TRACK", 0, <<itrk>>), Line("KEYSH", 0, <<0>>)>>
    /\ ibar' = 1
    /\ phase' = "write_bar"
    /\ UNCHANGED <<input, itrk, as_tracks, compression_table, dedupOthers>>

(* one turn of the bar loop of the emitter *)
WriteBar ==
    /\ phase = "write_bar"
    /\ ibar <= Len(as_tracks[itrk])
    /\ LET abar == as_tracks[itrk][ibar]
           r    == write_bar(state, compression_table, abar, itrk, ibar)
       IN  IF abar.is_referenced /\ abar.does_reference
           THEN /\ phase' = "abort"
                /\ UNCHANGED <<fout, state, ibar>>
           ELSE /\ fout' = fout \o r.out
                /\ state' = r.st
                /\ ibar' = ibar + 1
                /\ phase' = phase
    /\ UNCHANGED <<input, itrk, as_tracks, compression_table, dedupOthers>>

(* the track ends with FINE; the next track, or the end of the song *)
WriteFine ==
    /\ phase = "write_bar"
    /\ ibar > Len(as_tracks[itrk])
    /\ fout' = Append(fout, Line("FINE", 0, <<>>))
    /\ IF itrk < Len(as_tracks)
       THEN itrk' = itrk + 1 /\ phase' = "write_track"
       ELSE itrk' = itrk /\ phase' = "write_done"
    /\ UNCHANGED <<input, ibar, as_tracks, compression_table, state, dedupOthers>>

NextDedup ==
    \/ DedupInput \/ DedupInputTrack \/ WriteBegin
    \/ FillBar \/ FillNextTrack \/ FillDone
    \/ WriteTrack \/ WriteBar \/ WriteFine

SpecDedup == InitDedup /\ [][NextDedup]_vars

(* what was written for bar b of track t: the lines after its `@ nnn` line *)
(* up to the next such line or FINE                                        *)
SetMin(S) == CHOOSE x \in S : \A y \in S : x <= y

TrackPos(t) == SetMin({i \in 1..Len(fout) : fout[i] = Line("TRACK", 0, <<t>>)})

BarPos(t, b) ==
    SetMin({i \in (TrackPos(t) + 1)..Len(fout) : fout[i] = Line("BAR", 0, <<b>>)})

SegEnd(i) == SetMin({j \in (i + 1)..Len(fout) : fout[j].op \in {"BAR", "FINE"}})

BarOut(t, b) == SubSeq(fout, BarPos(t, b) + 1, SegEnd(BarPos(t, b)) - 1)

Coords == {<<t, b>> : t \in 1..Len(as_tracks), b \in 1..MaxSongBars}
BarCoords == {c \in Coords : c[2] <= Len(as_tracks[c[1]])}

BarAt(c) == as_tracks[c[1]][c[2]]

(* track-major order of bar coordinates *)
Earlier(c, d) == c[1] < d[1] \/ (c[1] = d[1] /\ c[2] < d[2])

(***************************************************************************)
(* C6.  Deduplication soundness: every bar with does_reference set is      *)
(* written as a PATT call whose target bar has the same event sequence and *)
(* has is_referenced set, and no bar with either flag set holds a          *)
(* LOOP_START or LOOP_END event.                                           *)
(***************************************************************************)
C6_DedupSound ==
    phase = "write_done" =>
        \A c \in BarCoords :
            /\ BarAt(c).does_reference =>
                  \E d \in BarCoords :
                      /\ BarOut(c[1], c[2]) = <<Line("PATT", 0, <<d[1], d[2]>>)>>
                      /\ BarAt(d).events = BarAt(c).events
                      /\ BarAt(d).is_referenced
            /\ (BarAt(c).does_reference \/ BarAt(c).is_referenced) =>
                  \A i \in 1..Len(BarAt(c).events) :
                      BarAt(c).events[i].type \notin {"LOOP_START", "LOOP_END"}

(* a bar of the second track calls a bar of the first, in a song that also *)
(* has two equal bars with a loop marker, which stay unflagged             *)
C6_Witness ==
    /\ phase = "write_done"
    /\ Len(as_tracks) = 2
    /\ \E b \in 1..Len(as_tracks[2]) : \E d \in 1..Len(as_tracks[1]) :
          /\ as_tracks[2][b].does_reference
          /\ BarOut(2, b) = <<Line("PATT", 0, <<1, d>>)>>
    /\ \E c \in BarCoords : \E d \in BarCoords :
          /\ c # d /\ BarAt(c).events = BarAt(d).events
          /\ BarAt(c).events # <<>>
          /\ BarAt(c).events[1].type = "LOOP_START"
          /\ ~BarAt(d).does_reference /\ ~BarAt(c).does_reference

(***************************************************************************)
(* C7.  Deduplication completeness: in track-major order, every non-empty  *)
(* bar of byte size > 5 without LOOP marker that equals an earlier such    *)
(* bar is written as one PATT call to the first such bar, and that first   *)
(* bar is written in full between its label and a trailing PEND.           *)
(***************************************************************************)
Candidate(c) ==
    /\ Len(BarAt(c).events) > 0
    /\ bar_size(BarAt(c).events) > 5
    /\ \A i \in 1..Len(BarAt(c).events) :
          BarAt(c).events[i].type \notin {"LOOP_START", "LOOP_END"}

(* the first bar, in track-major order, with the events of bar c *)
FirstEqual(c) ==
    CHOOSE d \in BarCoords :
        /\ Candidate(d) /\ BarAt(d).events = BarAt(c).events
        /\ \A e \in BarCoords :
              (Candidate(e) /\ BarAt(e).events = BarAt(c).events) => ~Earlier(e, d)

WrittenInFull(c) ==
    LET out == BarOut(c[1], c[2])
    IN  /\ Len(out) >= 2
        /\ out[1] = Line("LABEL", 0, <<c[1], c[2]>>)
        /\ out[Len(out)] = Line("PEND", 0, <<>>)
        /\ decode_lines(dec_reset, SubSeq(out, 2, Len(out) - 1)).es = BarAt(c).events

C7_DedupComplete ==
    phase = "write_done" =>
        \A c \in BarCoords :
            (Candidate(c) /\ FirstEqual(c) # c) =>
                /\ BarOut(c[1], c[2]) =
                      <<Line("PATT", 0, <<FirstEqual(c)[1], FirstEqual(c)[2]>>)>>
                /\ WrittenInFull(FirstEqual(c))

(* three equal bars in one track: the second and the third call the first *)
C7_Witness ==
    /\ phase = "write_done"
    /\ Len(as_tracks[1]) >= 3
    /\ Candidate(<<1, 1>>)
    /\ as_tracks[1][2].events = as_tracks[1][1].events
    /\ as_tracks[1][3].events = as_tracks[1][1].events
    /\ BarOut(1, 2) = <<Line("PATT", 0, <<1, 1>>)>>
    /\ BarOut(1, 3) = <<Line("PATT", 0, <<1, 1>>)>>
    /\ WrittenInFull(<<1, 1>>)

(***************************************************************************)
(* midi_remove_redundant_events (Redundancy Eliminator), one track         *)
(***************************************************************************)
(* the locals; voice and vol only count once voice_init / vol_init is set *)
red_init ==
    [tempo |-> 75, voice |-> 0, vol |-> 127, pan |-> 64, bend |-> 0,
     bendr |-> 2, mod |-> 0, modt |-> 0, tune |-> 64, prio |-> 0,
     voice_init |-> FALSE, vol_init |-> FALSE]

(* a search that never finds a later event at the tick *)
find_next_never(trk, start_event, T, ctrl) == FALSE

(* find_next_event_at_tick_index<T, ctrl>: is there, behind start_event    *)
(* and at its tick, an event of type T (and of controller ctrl, unless     *)
(* ctrl is -1)                                                             *)
find_next_event_at_tick_index(trk, start_event, T, ctrl) ==
    LET RECURSIVE scan(_)
        scan(next_index) ==
            IF next_index > Len(trk) THEN FALSE
            ELSE IF trk[next_index].ticks > trk[start_event].ticks THEN FALSE
            ELSE IF trk[next_index].type = T
                    /\ (ctrl # -1 => trk[next_index].a = ctrl)
                 THEN TRUE
                 ELSE scan(next_index + 1)
    IN  scan(start_event + 1)

(* the local an event is compared with ("none": no running value) *)
red_field(e) ==
    CASE e.type = "tempo" -> "tempo"
      [] e.type = "program" -> "voice"
      [] e.type = "pitchbend" -> "bend"
      [] IsCtrl(e, MIDI_CC_MSB_VOLUME) -> "vol"
      [] IsCtrl(e, MIDI_CC_MSB_PAN) -> "pan"
      [] IsCtrl(e, MIDI_CC_EX_BENDR) -> "bendr"
      [] IsCtrl(e, MIDI_CC_MSB_MOD) -> "mod"
      [] IsCtrl(e, MIDI_CC_EX_MODT) -> "modt"
      [] IsCtrl(e, MIDI_CC_EX_TUNE) -> "tune"
      [] IsCtrl(e, MIDI_CC_EX_PRIO) -> "prio"
      [] OTHER -> "none"

(* utempo: get_bpm() * 0.5 rounded, clamped to 0..255 *)
red_tempo(us) ==
    IF us = 0 THEN 255
    ELSE IF round_div(30000000, us) > 255 THEN 255 ELSE round_div(30000000, us)

(* the value compared with the local: utempo, get_program(), ubend or      *)
(* get_value()                                                             *)
red_value(e) ==
    CASE e.type = "tempo" -> red_tempo(e.a)
      [] e.type = "pitchbend" -> lower_bend(e.a)
      [] e.type = "controller" -> e.b
      [] OTHER -> e.a

(* the template argument ctrl of the search *)
red_ctrl(e) == IF e.type = "controller" THEN e.a ELSE -1

(* the first operand of each `||`: the event repeats the running value *)
red_same(r, e) ==
    LET f == red_field(e)
    IN  CASE f = "voice" -> r.voice_init /\ red_value(e) = r.voice
          [] f = "vol" -> r.vol_init /\ r.vol = red_value(e)
          [] OTHER -> r[f] = red_value(e)

(* the whole condition under which the event becomes a dummy *)
red_redundant(trk, r, ievt) ==
    \/ red_same(r, trk[ievt])
    \/ find_next_event_at_tick_index(trk, ievt, trk[ievt].type, red_ctrl(trk[ievt]))

(* locals that take the value of every event, kept or not *)
red_update_always(r, e, redundant) ==
    [r EXCEPT ![red_field(e)] = red_value(e)]

(* the else branches: the locals take the value of an event that is kept *)
red_update(r, e, redundant) ==
    IF redundant THEN r
    ELSE LET r1 == [r EXCEPT ![red_field(e)] = red_value(e)]
         IN  CASE red_field(e) = "voice" -> [r1 EXCEPT !.voice_init = TRUE]
               [] red_field(e) = "vol" -> [r1 EXCEPT !.vol_init = TRUE]
               [] OTHER -> r1

(* is the event replaced by a dummy *)
red_removes(trk, r, ievt) ==
    LET e == trk[ievt]
    IN  CASE red_field(e) # "none" -> red_redundant(trk, r, ievt)
          [] IsCtrl(e, MIDI_CC_EX_LOOP) -> e.b # EX_LOOP_START /\ e.b # EX_LOOP_END
          [] e.type = "controller" -> TRUE
          [] e.type \in {"timesig", "noteon", "noteoff"} -> FALSE
          [] OTHER -> TRUE

(* one turn of the event loop: the track and the locals after it *)
red_step(trk, r, ievt) ==
    LET e == trk[ievt]
        removed == red_removes(trk, r, ievt)
    IN  [trk |-> IF removed THEN [trk EXCEPT ![ievt] = Dummy(e.ticks)] ELSE trk,
         r   |-> IF red_field(e) # "none" THEN red_update(r, e, removed) ELSE r]

(* the track handed to the pass: sorted by tick *)
MaxRedTrackLen == 3

RedTicks == {0, 1}
RedChn == 1

RedEvents(t) ==
    { Tempo(t, 400000), Tempo(t, 500000), Program(t, RedChn, 0),
      Controller(t, RedChn, MIDI_CC_MSB_VOLUME, 127),
      Controller(t, RedChn, MIDI_CC_MSB_VOLUME, 50),
      Controller(t, RedChn, MIDI_CC_MSB_PAN, 64),
      Controller(t, RedChn, MIDI_CC_MSB_PAN, 10),
      PitchBend(t, RedChn, 1000),
      Controller(t, RedChn, MIDI_CC_EX_MODT, 1),
      Controller(t, RedChn, MIDI_CC_EX_TUNE, 70),
      Controller(t, RedChn, MIDI_CC_EX_PRIO, 9),
      Controller(t, RedChn, MIDI_CC_EX_LFOS, 40),
      Controller(t, RedChn, MIDI_CC_EX_LFODL, 10),
      Controller(t, RedChn, MIDI_CC_EX_LOOP, EX_LOOP_START),
      Controller(t, RedChn, MIDI_CC_EX_LOOP, EX_LOOP_END),
      Controller(t, RedChn, MIDI_CC_EX_LOOP, 5),
      NoteOn(t, RedChn, 60, 100) }

InitRed ==
    /\ phase = "red_input"
    /\ input = <<>> /\ mtrk = <<>> /\ idx = 1
    /\ red = red_init /\ once = <<>>
    /\ InitIdleLoop /\ InitIdleEmit
    /\ InitIdleLower /\ InitIdleSong /\ InitIdleOpt /\ InitIdleDedup
    /\ InitIdleInterp /\ InitIdleFilter

redOthers ==
    <<loopVars, emitVars, lowerVars, songVars, optVars, dedupVars, interpVars,
      filterVars>>

(* the next event of the track *)
RedInput ==
    /\ phase = "red_input"
    /\ Len(mtrk) < MaxRedTrackLen
    /\ \E t \in RedTicks : \E e \in RedEvents(t) :
          /\ t >= LastTick(mtrk)
          /\ mtrk' = Append(mtrk, e)
          /\ input' = Append(input, e)
    /\ UNCHANGED <<phase, idx, red, once, redOthers>>

(* the pass starts on the track: the locals are initialised *)
RedBegin ==
    /\ phase = "red_input"
    /\ phase' = "red_walk"
    /\ red' = red_init
    /\ idx' = 1
    /\ UNCHANGED <<input, mtrk, once, redOthers>>

(* one turn of the event loop, in the first or in the second run *)
RedStep ==
    /\ phase \in {"red_walk", "red_walk_again"}
    /\ idx <= Len(mtrk)
    /\ mtrk' = red_step(mtrk, red, idx).trk
    /\ red' = red_step(mtrk, red, idx).r
    /\ idx' = idx + 1
    /\ UNCHANGED <<phase, input, once, redOthers>>

(* the event loop ends: the pass is done with the track *)
RedEnd ==
    /\ phase = "red_walk"
    /\ idx > Len(mtrk)
    /\ phase' = "red_done"
    /\ once' = mtrk
    /\ UNCHANGED <<input, mtrk, idx, red, redOthers>>

(* the pass is run once more, on its own output *)
RedAgain ==
    /\ phase = "red_done"
    /\ phase' = "red_walk_again"
    /\ red' = red_init
    /\ idx' = 1
    /\ UNCHANGED <<input, mtrk, once, redOthers>>

(* the second run is done *)
RedEndAgain ==
    /\ phase = "red_walk_again"
    /\ idx > Len(mtrk)
    /\ phase' = "red_done_again"
    /\ UNCHANGED <<input, mtrk, idx, red, once, redOthers>>

NextRed == RedInput \/ RedBegin \/ RedStep \/ RedEnd \/ RedAgain \/ RedEndAgain

SpecRed == InitRed /\ [][NextRed]_vars

(***************************************************************************)
(* C8 (as amended).  After the Redundancy Eliminator no two surviving      *)
(* controller events of the same channel and controller number share a     *)
(* tick, except events of the private LOOP controller, which the pass      *)
(* never compares with one another.                                        *)
(***************************************************************************)
SameTickControllers(i, j) ==
    /\ mtrk[i].type = "controller" /\ mtrk[j].type = "controller"
    /\ mtrk[i].chn = mtrk[j].chn
    /\ mtrk[i].a = mtrk[j].a
    /\ mtrk[i].ticks = mtrk[j].ticks

C8_NoSameTickButLoop ==
    phase = "red_done" =>
        \A i \in 1..Len(mtrk) : \A j \in (i + 1)..Len(mtrk) :
            SameTickControllers(i, j) => mtrk[i].a = MIDI_CC_EX_LOOP

(* C8 as stated: the private LOOP controller included *)
C8_NoSameTickAtAll ==
    phase = "red_done" =>
        \A i \in 1..Len(mtrk) : \A j \in (i + 1)..Len(mtrk) : ~SameTickControllers(i, j)

(* two PAN events of one tick went in, the later one is left; a LOOP       *)
(* marker stands at the same tick                                          *)
C8_Witness ==
    /\ phase = "red_done"
    /\ input = << Controller(0, RedChn, MIDI_CC_MSB_PAN, 64),
                  Controller(0, RedChn, MIDI_CC_MSB_PAN, 10),
                  Controller(0, RedChn, MIDI_CC_EX_LOOP, EX_LOOP_START) >>
    /\ mtrk = << Dummy(0), Controller(0, RedChn, MIDI_CC_MSB_PAN, 10),
                 Controller(0, RedChn, MIDI_CC_EX_LOOP, EX_LOOP_START) >>

(***************************************************************************)
(* C9.  Idempotence: a second run of the Redundancy Eliminator on its own  *)
(* output changes nothing; the events that are dummies after two runs are  *)
(* those that are dummies after one.                                       *)
(***************************************************************************)
C9_Idempotent == phase = "red_done_again" => mtrk = once

(* a track of which the first run removed some events and kept others *)
C9_Witness ==
    /\ phase = "red_done_again"
    /\ mtrk = once
    /\ \E i \in 1..Len(input) : once[i] # input[i]
    /\ \E i \in 1..Len(input) : once[i] = input[i] /\ red_field(input[i]) # "none"

(***************************************************************************)
(* C10 (as stated).  An LFOS or LFODL controller event, the only one of    *)
(* its controller in the track, is still there after the Redundancy        *)
(* Eliminator and is lowered to an LFOS, respectively LFODL, event of its   *)
(* value.                                                                  *)
(***************************************************************************)
IsLfo(e) == IsCtrl(e, MIDI_CC_EX_LFOS) \/ IsCtrl(e, MIDI_CC_EX_LFODL)

C10_LfoSurvives ==
    phase = "red_done" =>
        \A i \in 1..Len(input) :
            (IsLfo(input[i]) /\ \A j \in 1..Len(input) : j # i => input[j].a # input[i].a)
                => /\ mtrk[i] = input[i]
                   /\ lower_controller(mtrk[i]) \in
                         { <<AgbEv("LFOS", input[i].b, 0, 0)>>,
                           <<AgbEv("LFODL", input[i].b, 0, 0)>> }

(***************************************************************************)
(* The Event Interpreter: midi_read_infile_arguments                       *)
(*                                                                         *)
(* A marker, text or cue point event is modelled by its directive: the     *)
(* event type is the prefix the code compares the text with, `a` is the    *)
(* number std::stoi reads behind the prefix.                               *)
(***************************************************************************)
TextPrefixes ==
    {"[", "]", "modt=", "modt_global=", "tune=", "lfos=", "lfos_global=",
     "lfodl=", "lfodl_global=", "prio="}

Text(ticks, prefix, n) == MidiEv(prefix, ticks, 0, n, 0)

IsText(e) == e.type \in TextPrefixes

(* dynamic_cast<const message_midi_event*> succeeds *)
IsMessage(e) ==
    e.type \in {"noteon", "noteoff", "controller", "program", "pitchbend"}

MIDI_CC_MSB_DATA_ENTRY == 6
MIDI_CC_MSB_EXPRESSION == 11
MIDI_CC_LSB_RPN == 100
MIDI_CC_MSB_RPN == 101

(* trk_get_channel_num: the channel of the first message event, or -1 *)
trk_get_channel_num(trk) ==
    LET ms == {i \in 1..Len(trk) : IsMessage(trk[i])}
    IN  IF ms = {} THEN -1
        ELSE trk[CHOOSE i \in ms : \A j \in ms : i <= j].chn

(* the test that guards the replacement of a directive *)
directive_channel_ok(channel) == channel > 0

(* the event a modt=, tune=, lfos=, lfodl= or prio= directive leaves at    *)
(* its place                                                               *)
directive(trk, e, ctrl, v) ==
    LET channel == trk_get_channel_num(trk)
    IN  IF directive_channel_ok(channel)
        THEN Controller(e.ticks, channel, ctrl, u8(v))
        ELSE e

(* the locals of midi_read_infile_arguments; volume_init holds one flag    *)
(* per track                                                               *)
meta_init(ntrk) ==
    [found_start |-> FALSE, found_end |-> FALSE, loop_start |-> 0,
     loop_end |-> 0, lsb_rpn |-> 0, msb_rpn |-> 0, last_event |-> 0,
     volume_init |-> [t \in 1..ntrk |-> FALSE]]

(* the controller branch of the parse loop *)
parse_controller(score, t, i, m, a) ==
    LET e == score[t][i]
    IN  IF e.a = MIDI_CC_LSB_RPN
        THEN [mf |-> score, arg |-> a, meta |-> [m EXCEPT !.lsb_rpn = e.b]]
        ELSE IF e.a = MIDI_CC_MSB_RPN
        THEN [mf |-> score, arg |-> a, meta |-> [m EXCEPT !.msb_rpn = e.b]]
        ELSE IF e.a = MIDI_CC_MSB_DATA_ENTRY /\ m.msb_rpn = 0 /\ m.lsb_rpn = 0
        THEN [mf |-> [score EXCEPT ![t][i] =
                        Controller(e.ticks, e.chn, MIDI_CC_EX_BENDR, e.b)],
              arg |-> a, meta |-> m]
        ELSE IF e.a = MIDI_CC_MSB_VOLUME
        THEN [mf |-> score, arg |-> a, meta |-> [m EXCEPT !.volume_init[t] = TRUE]]
        ELSE [mf |-> score, arg |-> a, meta |-> m]

(* the chain of comparisons of the text of an event *)
parse_text(score, t, i, m, a) ==
    LET e == score[t][i]
        put(ctrl, v) == [score EXCEPT ![t][i] = directive(score[t], e, ctrl, v)]
    IN  CASE e.type = "[" ->
                [mf |-> score, arg |-> a,
                 meta |-> [m EXCEPT !.found_start = TRUE, !.loop_start = e.ticks]]
          [] e.type = "]" ->
                [mf |-> score, arg |-> a,
                 meta |-> [m EXCEPT !.found_end = TRUE, !.loop_end = e.ticks]]
          [] e.type = "modt=" ->
                [mf |-> put(MIDI_CC_EX_MODT, clamp(e.a, 0, 2)),
                 arg |-> a, meta |-> m]
          [] e.type = "modt_global=" ->
                [mf |-> score, meta |-> m,
                 arg |-> [a EXCEPT !.arg_modt_global = TRUE,
                                   !.arg_modt = u8(clamp(e.a, 0, 2))]]
          [] e.type = "tune=" ->
                [mf |-> put(MIDI_CC_EX_TUNE, clamp(e.a, -64, 63)),
                 arg |-> a, meta |-> m]
          [] e.type = "lfos=" ->
                [mf |-> put(MIDI_CC_EX_LFOS, clamp(e.a, 0, 127)),
                 arg |-> a, meta |-> m]
          [] e.type = "lfos_global=" ->
                [mf |-> score, meta |-> m,
                 arg |-> [a EXCEPT !.arg_lfos_global = TRUE,
                                   !.arg_lfos = u8(clamp(e.a, 0, 127))]]
          [] e.type = "lfodl=" ->
                [mf |-> put(MIDI_CC_EX_LFODL, clamp(e.a, 0, 127)),
                 arg |-> a, meta |-> m]
          [] e.type = "lfodl_global=" ->
                [mf |-> score, meta |-> m,
                 arg |-> [a EXCEPT !.arg_lfodl_global = TRUE,
                                   !.arg_lfodl = u8(clamp(e.a, 0, 127))]]
          [] e.type = "prio=" ->
                [mf |-> put(MIDI_CC_EX_PRIO, clamp(e.a, 0, 127)),
                 arg |-> a, meta |-> m]

(* last_event that only remembers the tick of the event just read *)
last_event_latest(e, m) == e.ticks

(* last_event = std::max(ev.ticks, last_event) *)
last_event_max(e, m) == Max(e.ticks, m.last_event)

(* one turn of the parse loop: the event i of the track t *)
parse_event(score, t, i, m, a) ==
    LET e == score[t][i]
        m1 == [m EXCEPT !.last_event = last_event_max(e, m)]
    IN  IF IsText(e) THEN parse_text(score, t, i, m1, a)
        ELSE IF e.type = "controller"
        THEN parse_controller(score, t, i, m1, a)
        ELSE IF e.type = "noteoff"
        THEN [mf |-> [score EXCEPT ![t][i].b = MIDI_NOTE_PARSE_INIT],
              arg |-> a, meta |-> m1]
        ELSE [mf |-> score, arg |-> a, meta |-> m1]

(* std::lower_bound and std::upper_bound with ev_tick_cmp, as 1-based      *)
(* insert positions in a tick-sorted track                                 *)
lower_bound(trk, ticks) ==
    1 + Cardinality({i \in 1..Len(trk) : trk[i].ticks < ticks})

upper_bound(trk, ticks) ==
    1 + Cardinality({i \in 1..Len(trk) : trk[i].ticks <= ticks})

insert_lower(trk, e) == InsertAt(trk, lower_bound(trk, e.ticks), <<e>>)
insert_upper(trk, e) == InsertAt(trk, upper_bound(trk, e.ticks), <<e>>)

(* the value of the LFODL event inserted for the lfodl global flag *)
global_lfodl_value(a) == a.arg_lfos

(* one turn of the insertion loop: the track as it is left *)
insert_globals(trk, init, m, a) ==
    LET chn == trk_get_channel_num(trk)
        t1 == IF m.found_start
              THEN insert_lower(trk, Controller(m.loop_start, chn,
                                    MIDI_CC_EX_LOOP, EX_LOOP_START))
              ELSE trk
        t2 == IF m.found_end
              THEN insert_upper(t1, Controller(m.loop_end, chn,
                                    MIDI_CC_EX_LOOP, EX_LOOP_END))
              ELSE t1
        t3 == IF a.arg_modt_global
              THEN insert_upper(t2, Controller(0, chn, MIDI_CC_EX_MODT, a.arg_modt))
              ELSE t2
        t4 == IF a.arg_lfos_global
              THEN insert_upper(t3, Controller(0, chn, MIDI_CC_EX_LFOS, a.arg_lfos))
              ELSE t3
        t5 == IF a.arg_lfodl_global
              THEN insert_upper(t4, Controller(0, chn, MIDI_CC_EX_LFODL,
                                    global_lfodl_value(a)))
              ELSE t4
        t6 == IF ~init
              THEN insert_upper(t5, Controller(0, chn, MIDI_CC_MSB_VOLUME, 127))
              ELSE t5
    IN  IF chn < 0 THEN trk ELSE insert_upper(t6, Dummy(m.last_event))

(***************************************************************************)
(* SpecInterp: midi_read_infile_arguments on every score of at most        *)
(* MaxInterpEvents events in at most two tracks, under each command line   *)
(* of InterpArgs.                                                          *)
(***************************************************************************)
MaxInterpEvents == 3

InterpTracks == {1, 2}

(* the arg_* globals as their definitions initialise them; arg_mod_scale  *)
(* in hundredths                                                           *)
arg_default ==
    [arg_modt_global |-> FALSE, arg_modt |-> 0, arg_lfos_global |-> FALSE,
     arg_lfos |-> 0, arg_lfodl_global |-> FALSE, arg_lfodl |-> 0,
     arg_natural |-> FALSE, arg_mvl |-> 128, arg_mod_scale |-> 100]

(* no option, and --modt 1 --lfos 40 --lfodl 10 *)
InterpArgs ==
    {arg_default,
     [arg_default EXCEPT !.arg_modt_global = TRUE, !.arg_modt = 1,
                         !.arg_lfos_global = TRUE, !.arg_lfos = 40,
                         !.arg_lfodl_global = TRUE, !.arg_lfodl = 10]}

(* the events that can follow an event at tick t *)
InterpEvents(t) ==
    {NoteOn(t, 0, 60, 100), NoteOn(t, 1, 60, 100), NoteOn(t + 1, 1, 60, 100)}
    \cup {NoteOff(t + 1, 1, 60, 64), Controller(t, 1, MIDI_CC_MSB_VOLUME, 50)}
    \cup {Text(t, "[", 0), Text(t + 1, "]", 0)}
    \cup {Text(t, "modt=", 5), Text(t, "prio=", 9), Text(t, "lfos=", 40)}
    \cup {Text(t, "tune=", n) : n \in {-65, 0}}
    \cup {Text(t, p, 10) : p \in {"lfodl=", "lfodl_global="}}

ScoreLen(score) == SumSeq([t \in 1..Len(score) |-> Len(score[t])])

InitInterp ==
    /\ phase = "interp_input"
    /\ input = <<>> /\ mtrk = <<>> /\ idx = 1
    /\ mf = << <<>> >> /\ itrk = 1
    /\ bar_table = <<>> /\ current_bar_len = 0
    /\ current_bar = 0 /\ tick_counter = 0
    /\ arg \in InterpArgs /\ meta = <<>>
    /\ InitIdleLoop /\ InitIdleEmit /\ InitIdleSong /\ InitIdleOpt
    /\ InitIdleDedup /\ InitIdleRed /\ InitIdleFilter

interpOthers ==
    <<mtrk, bar_table, current_bar_len, current_bar, tick_counter, loopVars,
      emitVars, songVars, optVars, dedupVars, redVars, filterVars>>

(* the next event of the last track of the file *)
InterpInput ==
    /\ phase = "interp_input"
    /\ ScoreLen(mf) < MaxInterpEvents
    /\ \E e \in InterpEvents(LastTick(mf[Len(mf)])) :
          mf' = [mf EXCEPT ![Len(mf)] = Append(@, e)]
    /\ UNCHANGED <<phase, input, idx, itrk, arg, meta, interpOthers>>

(* the next track of the file *)
InterpInputTrack ==
    /\ phase = "interp_input"
    /\ Len(mf) + 1 \in InterpTracks
    /\ mf' = Append(mf, <<>>)
    /\ UNCHANGED <<phase, input, idx, itrk, arg, meta, interpOthers>>

(* midi_read_infile_arguments is entered *)
InterpBegin ==
    /\ phase = "interp_input"
    /\ phase' = "interp_parse"
    /\ input' = mf
    /\ meta' = meta_init(Len(mf))
    /\ itrk' = 1 /\ idx' = 1
    /\ UNCHANGED <<mf, arg, interpOthers>>

(* one turn of the inner parse loop *)
InterpParse ==
    /\ phase = "interp_parse"
    /\ itrk <= Len(mf) /\ idx <= Len(mf[itrk])
    /\ LET r == parse_event(mf, itrk, idx, meta, arg)
       IN  mf' = r.mf /\ meta' = r.meta /\ arg' = r.arg
    /\ idx' = idx + 1
    /\ UNCHANGED <<phase, input, itrk, interpOthers>>

(* the inner loop ends: the next track *)
InterpParseNextTrack ==
    /\ phase = "interp_parse"
    /\ itrk <= Len(mf) /\ idx > Len(mf[itrk])
    /\ itrk' = itrk + 1 /\ idx' = 1
    /\ UNCHANGED <<phase, input, mf, arg, meta, interpOthers>>

(* the parse loop ends: the insertion loop starts *)
InterpParseDone ==
    /\ phase = "interp_parse"
    /\ itrk > Len(mf)
    /\ phase' = "interp_insert"
    /\ itrk' = 1
    /\ UNCHANGED <<input, idx, mf, arg, meta, interpOthers>>

(* one turn of the insertion loop *)
InterpInsert ==
    /\ phase = "interp_insert"
    /\ itrk <= Len(mf)
    /\ mf' = [mf EXCEPT ![itrk] =
                insert_globals(@, meta.volume_init[itrk], meta, arg)]
    /\ itrk' = itrk + 1
    /\ UNCHANGED <<phase, input, idx, arg, meta, interpOthers>>

(* midi_read_infile_arguments returns *)
InterpDone ==
    /\ phase = "interp_insert"
    /\ itrk > Len(mf)
    /\ phase' = "interp_done"
    /\ UNCHANGED <<input, idx, itrk, mf, arg, meta, interpOthers>>

NextInterp ==
    \/ InterpInput \/ InterpInputTrack \/ InterpBegin \/ InterpParse
    \/ InterpParseNextTrack \/ InterpParseDone \/ InterpInsert \/ InterpDone

SpecInterp == InitInterp /\ [][NextInterp]_vars

(***************************************************************************)
(* Claims about the Event Interpreter                                      *)
(***************************************************************************)
IsDirective(e) == e.type \in {"modt=", "tune=", "lfos=", "lfodl=", "prio="}

(* the private controller a directive stands for *)
DirectiveCtrl(e) ==
    CASE e.type = "modt=" -> MIDI_CC_EX_MODT
      [] e.type = "tune=" -> MIDI_CC_EX_TUNE
      [] e.type = "lfos=" -> MIDI_CC_EX_LFOS
      [] e.type = "lfodl=" -> MIDI_CC_EX_LFODL
      [] e.type = "prio=" -> MIDI_CC_EX_PRIO

HasMessage(trk) == \E i \in 1..Len(trk) : IsMessage(trk[i])

(***************************************************************************)
(* C11 (as stated).  After the Event Interpreter, in every track that      *)
(* holds a channel message event no modt=, tune=, lfos=, lfodl= or prio=   *)
(* directive is left, and each one has become a controller event of its    *)
(* private controller number at its tick on the first channel of the       *)
(* track, channel 0 included.                                              *)
(***************************************************************************)
C11_DirectivesReplaced ==
    phase = "interp_done" =>
        \A t \in 1..Len(input) :
            HasMessage(input[t]) =>
                /\ \A j \in 1..Len(mf[t]) : ~IsDirective(mf[t][j])
                /\ \A i \in 1..Len(input[t]) :
                      IsDirective(input[t][i]) =>
                          \E j \in 1..Len(mf[t]) :
                              /\ IsCtrl(mf[t][j], DirectiveCtrl(input[t][i]))
                              /\ mf[t][j].ticks = input[t][i].ticks
                              /\ mf[t][j].chn = trk_get_channel_num(input[t])

(***************************************************************************)
(* C12 (as stated).  A tune=N directive that the Event Interpreter         *)
(* replaces becomes an event that Bar Lowering turns into TUNE with the    *)
(* signed operand N clamped to -64..63; tune=0 gives TUNE 0.               *)
(***************************************************************************)
C12_TuneOperand ==
    phase = "interp_done" =>
        \A t \in 1..Len(input) :
            trk_get_channel_num(input[t]) > 0 =>
                \A i \in 1..Len(input[t]) :
                    input[t][i].type = "tune=" =>
                        \E j \in 1..Len(mf[t]) :
                            /\ mf[t][j].ticks = input[t][i].ticks
                            /\ lower_controller(mf[t][j]) =
                                  <<AgbEv("TUNE", clamp(input[t][i].a, -64, 63),
                                          0, 0)>>

(* how often the event e occurs in the track *)
Count(trk, e) == Cardinality({j \in 1..Len(trk) : trk[j] = e})

(* the turn of the insertion loop for the track itrk adds the event e *)
Inserts(e) == Count(mf'[itrk], e) = Count(mf[itrk], e) + 1

(***************************************************************************)
(* C13 (as stated).  A turn of the insertion loop on a track with a        *)
(* channel adds, when the respective global flag is set, a tick-0 LFODL    *)
(* event that carries arg_lfodl, a tick-0 MODT event that carries arg_modt *)
(* and a tick-0 LFOS event that carries arg_lfos.                          *)
(***************************************************************************)
C13_GlobalValues ==
    [][(/\ phase = "interp_insert"
        /\ itrk <= Len(mf)
        /\ trk_get_channel_num(mf[itrk]) >= 0)
       => LET chn == trk_get_channel_num(mf[itrk])
          IN  /\ arg.arg_lfodl_global =>
                    Inserts(Controller(0, chn, MIDI_CC_EX_LFODL, arg.arg_lfodl))
              /\ arg.arg_modt_global =>
                    Inserts(Controller(0, chn, MIDI_CC_EX_MODT, arg.arg_modt))
              /\ arg.arg_lfos_global =>
                    Inserts(Controller(0, chn, MIDI_CC_EX_LFOS, arg.arg_lfos))]_vars

(* the maximum tick over all events of all tracks, 0 for an empty score *)
MaxTick(score) ==
    SetMax({0} \cup UNION {{score[t][i].ticks : i \in 1..Len(score[t])} :
                              t \in 1..Len(score)})

EndsWithDummyAt(trk, ticks) == trk # <<>> /\ Back(trk) = Dummy(ticks)

RECURSIVE BigOf(_)
BigOf(n) == IF n = 0 THEN <<>> ELSE <<n % 100>> \o BigOf(n \div 100)

RECURSIVE BigMulCarry(_, _, _)
BigMulCarry(x, k, carry) ==
    IF x = <<>> THEN BigOf(carry)
    ELSE LET v == Head(x) * k + carry
         IN  <<v % 100>> \o BigMulCarry(Tail(x), k, v \div 100)

(* x * k for a machine integer k of at most 2^24 *)
BigMul(x, k) == IF k = 0 THEN <<>> ELSE BigMulCarry(x, k, 0)

RECURSIVE BigPow(_, _)
BigPow(n, k) == IF k = 0 THEN BigOf(1) ELSE BigMul(BigPow(n, k - 1), n)

RECURSIVE BigLeqFrom(_, _, _)
BigLeqFrom(x, y, i) ==
    IF i = 0 THEN TRUE
    ELSE IF x[i] # y[i] THEN x[i] < y[i]
    ELSE BigLeqFrom(x, y, i - 1)

BigLeq(x, y) ==
    IF Len(x) # Len(y) THEN Len(x) < Len(y) ELSE BigLeqFrom(x, y, Len(x))

(* std::round(127.0 * pow(num / den, 10.0 / 6.0)) for 0 <= num <= den:    *)
(* the largest r with (r - 1/2)^3 <= 127^3 * (num / den)^5                 *)
natural_round(num, den) ==
    LET lhs == BigMul(BigMul(BigPow(num, 5), 127 * 127 * 127), 8)
        den5 == BigPow(den, 5)
        reached(r) ==
            BigLeq(BigMul(den5, (2 * r - 1) * (2 * r - 1) * (2 * r - 1)), lhs)
        RECURSIVE find(_, _)
        find(lo, hi) ==
            IF lo = hi THEN lo
            ELSE LET mid == (lo + hi + 1) \div 2
                 IN  IF reached(mid) THEN find(mid, hi) ELSE find(lo, mid - 1)
    IN  find(0, 127)

(* vol_scale that cuts the quotient off instead of rounding it *)
vol_scale_trunc(vol, expr, a) ==
    u8(clamp((vol * expr * a.arg_mvl) \div (127 * 128), 0, 127))

(* the lambda vol_scale *)
vol_scale(vol, expr, a) ==
    LET x == vol * expr * a.arg_mvl
    IN  IF a.arg_natural
        THEN u8(clamp(natural_round(x, 127 * 127 * 128), 0, 127))
        ELSE u8(clamp(round_div(x, 127 * 128), 0, 127))

(* the lambda vel_scale *)
vel_scale(vel, a) ==
    IF a.arg_natural
    THEN u8(clamp(natural_round(vel, 127), 0, 127))
    ELSE u8(clamp(vel, 0, 127))

(* the MOD branch: roundf(value * arg_mod_scale), clamped; arg_mod_scale   *)
(* is kept in hundredths                                                   *)
mod_scale(v, a) == u8(clamp(round_div(v * a.arg_mod_scale, 100), 0, 127))

(* one turn of the event loop: the track and the running state after it *)
filter_step(trk, ievt, vol, expr, a) ==
    LET e == trk[ievt]
    IN  IF IsCtrl(e, MIDI_CC_MSB_VOLUME)
        THEN [trk |-> [trk EXCEPT ![ievt].b = vol_scale(e.b, expr, a)],
              volume |-> e.b, expression |-> expr]
        ELSE IF IsCtrl(e, MIDI_CC_MSB_EXPRESSION)
        THEN [trk |-> [trk EXCEPT ![ievt].a = MIDI_CC_MSB_VOLUME,
                                  ![ievt].b = vol_scale(vol, e.b, a)],
              volume |-> vol, expression |-> e.b]
        ELSE IF IsCtrl(e, MIDI_CC_MSB_MOD)
        THEN [trk |-> [trk EXCEPT ![ievt].b = mod_scale(e.b, a)],
              volume |-> vol, expression |-> expr]
        ELSE IF e.type = "noteon"
        THEN [trk |-> [trk EXCEPT ![ievt].b = vel_scale(e.b, a)],
              volume |-> vol, expression |-> expr]
        ELSE [trk |-> trk, volume |-> vol, expression |-> expr]

(***************************************************************************)
(* SpecFilter: the filter on every track of at most MaxFilterLen events    *)
(* of FilterEvents; SpecVel: the filter on tracks of at most MaxVelLen     *)
(* note-ons of every velocity.  The filter never reads a tick.             *)
(***************************************************************************)
MaxFilterLen == 3
MaxVelLen == 1

FilterChn == 1

(* -m 128, -m 64 --modsc 1.5, and -n *)
FilterArgs ==
    {arg_default,
     [arg_default EXCEPT !.arg_mvl = 64, !.arg_mod_scale = 150],
     [arg_default EXCEPT !.arg_natural = TRUE]}

FilterEvents ==
    {Controller(0, FilterChn, MIDI_CC_MSB_VOLUME, v) : v \in {0, 100, 127}}
    \cup {Controller(0, FilterChn, MIDI_CC_MSB_EXPRESSION, v) : v \in {0, 64, 127}}
    \cup {Controller(0, FilterChn, MIDI_CC_MSB_MOD, 100),
          Controller(0, FilterChn, MIDI_CC_MSB_PAN, 10)}
    \cup {NoteOn(0, FilterChn, 60, v) : v \in {1, 100}}

VelEvents == {NoteOn(0, FilterChn, 60, v) : v \in 1..127}

InitFilter ==
    /\ phase = "filter_input"
    /\ input = <<>> /\ mtrk = <<>> /\ idx = 1
    /\ arg \in FilterArgs /\ meta = <<>>
    /\ volume = 100 /\ expression = 127
    /\ InitIdleLoop /\ InitIdleEmit /\ InitIdleLower /\ InitIdleSong
    /\ InitIdleOpt /\ InitIdleDedup /\ InitIdleRed

filterOthers ==
    <<arg, meta, loopVars, emitVars, lowerVars, songVars, optVars, dedupVars,
      redVars>>

(* the next event of the track, one of `events` *)
FilterInputOf(events, maxlen) ==
    /\ phase = "filter_input"
    /\ Len(mtrk) < maxlen
    /\ \E e \in events : mtrk' = Append(mtrk, e)
    /\ UNCHANGED <<phase, input, idx, filterVars, filterOthers>>

FilterInput == FilterInputOf(FilterEvents, MaxFilterLen)

VelInput == FilterInputOf(VelEvents, MaxVelLen)

(* the outer loop reaches the track: volume = 100, expression = 127 *)
FilterBegin ==
    /\ phase = "filter_input"
    /\ phase' = "filter"
    /\ input' = mtrk
    /\ idx' = 1
    /\ volume' = 100 /\ expression' = 127
    /\ UNCHANGED <<mtrk, filterOthers>>

(* one turn of the event loop *)
FilterStep ==
    /\ phase = "filter"
    /\ idx <= Len(mtrk)
    /\ LET r == filter_step(mtrk, idx, volume, expression, arg)
       IN  mtrk' = r.trk /\ volume' = r.volume /\ expression' = r.expression
    /\ idx' = idx + 1
    /\ UNCHANGED <<phase, input, filterOthers>>

(* the event loop ends *)
FilterEnd ==
    /\ phase = "filter"
    /\ idx > Len(mtrk)
    /\ phase' = "filter_done"
    /\ UNCHANGED <<trackVars, filterVars, filterOthers>>

NextFilter == FilterInput \/ FilterBegin \/ FilterStep \/ FilterEnd

SpecFilter == InitFilter /\ [][NextFilter]_vars

NextVel == VelInput \/ FilterBegin \/ FilterStep \/ FilterEnd

SpecVel == InitFilter /\ [][NextVel]_vars

(***************************************************************************)
(* Claims about the Volume/Velocity Filter                                 *)
(***************************************************************************)

(***************************************************************************)
(* C15 (as stated).  After the filter every note-on whose velocity was in  *)
(* 1..127 has a velocity in 1..127, under the linear and under the natural *)
(* curve: no velocity 0 is produced.                                       *)
(***************************************************************************)
C15_VelocityPositive ==
    phase = "filter_done" =>
        \A i \in 1..Len(input) :
            (input[i].type = "noteon" /\ input[i].b \in 1..127)
                => mtrk[i].b \in 1..127

(* the value of the last event of controller ctrl among input[1..i], or    *)
(* `init` when there is none                                               *)
LastRaw(ctrl, i, init) ==
    LET ps == {j \in 1..i : IsCtrl(input[j], ctrl)}
    IN  IF ps = {} THEN init ELSE input[SetMax(ps)].b

(* r is n / d rounded to the nearest integer, halves upward *)
IsRounded(r, n, d) == 2 * d * r - d <= 2 * n /\ 2 * n < 2 * d * r + d

(***************************************************************************)
(* C16.  Under the linear curve every MSB_VOLUME and every MSB_EXPRESSION  *)
(* event leaves the filter, at its place, as an MSB_VOLUME event whose     *)
(* value is round(vol * expr * mvl / (127 * 128)) clamped to 0..127, where *)
(* vol and expr are the last raw volume and expression values up to and    *)
(* including the event, 100 and 127 when there was none.                   *)
(***************************************************************************)
C16_VolumeFold ==
    (phase = "filter_done" /\ ~arg.arg_natural) =>
        \A i \in 1..Len(input) :
            (IsCtrl(input[i], MIDI_CC_MSB_VOLUME)
             \/ IsCtrl(input[i], MIDI_CC_MSB_EXPRESSION)) =>
                LET vol == LastRaw(MIDI_CC_MSB_VOLUME, i, 100)
                    expr == LastRaw(MIDI_CC_MSB_EXPRESSION, i, 127)
                IN  \E r \in 0..255 :
                        /\ IsRounded(r, vol * expr * arg.arg_mvl, 127 * 128)
                        /\ mtrk[i] = Controller(input[i].ticks, input[i].chn,
                                         MIDI_CC_MSB_VOLUME, clamp(r, 0, 127))

(* volume 100, then expression 64, with mvl 128: 100 and 50 *)
C16_Witness ==
    /\ phase = "filter_done"
    /\ ~arg.arg_natural /\ arg.arg_mvl = 128
    /\ input = <<Controller(0, FilterChn, MIDI_CC_MSB_VOLUME, 100),
                 Controller(0, FilterChn, MIDI_CC_MSB_EXPRESSION, 64)>>
    /\ mtrk = <<Controller(0, FilterChn, MIDI_CC_MSB_VOLUME, 100),
                Controller(0, FilterChn, MIDI_CC_MSB_VOLUME, 50)>>

(***************************************************************************)
(* Note pairing (SpecPair).  Pairs is the pairing read off the score: each *)
(* note-on, in track order, claims the first later note-off of its key     *)
(* that no earlier note-on has claimed.  The lowered track is read back as *)
(* timed events: an event's tick is the sum of the WAITs before it.        *)
(***************************************************************************)
RECURSIVE Pairs(_, _, _)
Pairs(trk, i, claimed) ==
    IF i > Len(trk) THEN {}
    ELSE IF trk[i].type # "noteon" THEN Pairs(trk, i + 1, claimed)
    ELSE LET free == {j \in (i + 1)..Len(trk) :
                         /\ trk[j].type = "noteoff"
                         /\ trk[j].a = trk[i].a
                         /\ j \notin claimed}
         IN  IF free = {} THEN {<<i, 0>>} \cup Pairs(trk, i + 1, claimed)
             ELSE LET j == CHOOSE k \in free : \A m \in free : k <= m
                  IN  {<<i, j>>} \cup Pairs(trk, i + 1, claimed \cup {j})

RECURSIVE FlatEvents(_)
FlatEvents(bars) ==
    IF bars = <<>> THEN <<>> ELSE Head(bars).events \o FlatEvents(Tail(bars))

RECURSIVE TimedNotes(_, _)
TimedNotes(es, t) ==
    IF es = <<>> THEN <<>>
    ELSE IF Head(es).type = "WAIT" THEN TimedNotes(Tail(es), t + Head(es).a)
    ELSE IF Head(es).type \in {"NOTE", "TIE", "EOT"}
    THEN <<<<t, Head(es)>>>> \o TimedNotes(Tail(es), t)
    ELSE TimedNotes(Tail(es), t)

Occurrences(s, x) == Cardinality({i \in 1..Len(s) : s[i] = x})

PairLen(trk, p) == trk[p[2]].ticks - trk[p[1]].ticks

(* what the pair p is to yield at the note-on tick and at the note-off tick *)
PairOn(trk, p) ==
    IF PairLen(trk, p) > 96
    THEN <<trk[p[1]].ticks, AgbEv("TIE", trk[p[1]].a, trk[p[1]].b, 0)>>
    ELSE <<trk[p[1]].ticks,
           AgbEv("NOTE", Max(PairLen(trk, p), 1), trk[p[1]].a, trk[p[1]].b)>>

PairOff(trk, p) == <<trk[p[2]].ticks, AgbEv("EOT", trk[p[2]].a, 0, 0)>>

PairYields(trk, p, x) ==
    (IF PairOn(trk, p) = x THEN 1 ELSE 0)
    + (IF PairLen(trk, p) > 96 /\ PairOff(trk, p) = x THEN 1 ELSE 0)

RECURSIVE SumOver(_, _, _, _)
SumOver(ps, trk, x, acc) ==
    IF ps = {} THEN acc
    ELSE LET p == CHOOSE q \in ps : TRUE
         IN  SumOver(ps \ {p}, trk, x, acc + PairYields(trk, p, x))

(* C17: when midi_to_agb returns, the note events of the lowered track are *)
(* exactly what the pairs of the score yield: a pair of length L > 96 one  *)
(* TIE(key, vel) at the note-on tick and one EOT(key) at the note-off      *)
(* tick, a pair of length L <= 96 one NOTE(max(L, 1), key, vel) at the     *)
(* note-on tick and nothing at the note-off tick; and every note-off is    *)
(* claimed by exactly the one note-on that the pairing gives it, which its *)
(* mark (TIE or SHORT) records.                                            *)
C17_NotePairing ==
    phase = "lower_done" =>
        LET trk == mf[1]
            ps == Pairs(trk, 1, {})
            got == TimedNotes(FlatEvents(as_tracks[1]), 0)
            want == {PairOn(trk, p) : p \in ps}
                    \cup {PairOff(trk, p) : p \in ps}
        IN  /\ \A p \in ps : p[2] # 0
            /\ \A p \in ps : \A q \in ps : p[2] = q[2] => p = q
            /\ \A p \in ps :
                  trk[p[2]].b = IF PairLen(trk, p) > 96
                                THEN MIDI_NOTE_PARSE_TIE
                                ELSE MIDI_NOTE_PARSE_SHORT
            /\ \A x \in want \cup {got[i] : i \in 1..Len(got)} :
                  Occurrences(got, x) = SumOver(ps, trk, x, 0)

(* a tie over a note of exactly 96 ticks: note-ons of the keys 60 and 61   *)
(* at tick 0, the note-off of 61 at 96 and the note-off of 60 at 97        *)
C17_Witness ==
    /\ phase = "lower_done"
    /\ Len(mf[1]) = 5
    /\ mf[1][1] = NoteOn(0, LowerChn, 60, LowerVel)
    /\ mf[1][2] = NoteOn(0, LowerChn, 61, LowerVel)
    /\ mf[1][3] = NoteOff(96, LowerChn, 61, MIDI_NOTE_PARSE_SHORT)
    /\ mf[1][4] = NoteOff(97, LowerChn, 60, MIDI_NOTE_PARSE_TIE)
    /\ TimedNotes(FlatEvents(as_tracks[1]), 0)
         = << <<0, AgbEv("TIE", 60, LowerVel, 0)>>,
              <<0, AgbEv("NOTE", 96, 61, LowerVel)>>,
              <<97, AgbEv("EOT", 60, 0, 0)>> >>

(***************************************************************************)
(* Score-shape errors (SpecShape).  die() prints the message and calls      *)
(* exit(1): the phase "die" has no successor, so agb_optimize and          *)
(* write_agb, which main calls after midi_to_agb has returned (phase       *)
(* "lower_done"), never run.                                               *)
(***************************************************************************)
Claimed(trk) == {p[2] : p \in Pairs(trk, 1, {})}

(* a note-on without a later unclaimed note-off of its key, or a note-off  *)
(* that no note-on claims                                                  *)
ShapeError(trk) ==
    \/ 0 \in Claimed(trk)
    \/ \E j \in 1..Len(trk) : trk[j].type = "noteoff" /\ j \notin Claimed(trk)

Lowering == phase \in {"bar_for", "bar_while", "lower"}

(* SpecShape: SpecPair with events at bar distance only; midi_to_agb is   *)
(* straight-line code over finite loops, so every step it can take is      *)
(* taken                                                                   *)
ShapeDeltas == {0, 96}

ShapeInput ==
    /\ phase = "lower_input"
    /\ Len(mf[1]) < MaxPairLen
    /\ \E d \in ShapeDeltas : \E e \in PairEvents(LastTick(mf[1]) + d) :
          mf' = [mf EXCEPT ![1] = Append(@, e)]
    /\ UNCHANGED <<phase, idx, bar_table, current_bar_len, itrk, current_bar,
                   tick_counter, songVars, lowerOthers>>

NextShape ==
    \/ ShapeInput \/ PairBegin
    \/ BarTableEvent \/ BarTableFreeze \/ BarTableSig \/ BarTableDone
    \/ LowerEvent \/ LowerDone

SpecShape == InitLower /\ [][NextShape]_vars /\ WF_vars(NextShape)

(* C18: a score with a shape error that enters midi_to_agb ends in die()   *)
(* and stays there; midi_to_agb never returns for it.                      *)
C18_ShapeErrorsDie ==
    /\ [](Lowering /\ ShapeError(mf[1]) => <>[](phase = "die"))
    /\ [](ShapeError(mf[1]) => phase # "lower_done")

(* die() was called at a note-off that is still marked INIT, in a track    *)
(* whose note-ons all have their note-off                                  *)
C18_Witness ==
    /\ phase = "die"
    /\ mf[1][idx].type = "noteoff"
    /\ mf[1][idx].b = MIDI_NOTE_PARSE_INIT
    /\ 0 \notin Claimed(mf[1])
    /\ \E i \in 1..(idx - 1) : mf[1][i].type = "noteon"

(* die() was called at a note-on without a note-off *)
C18_WitnessNoteOn ==
    /\ phase = "die"
    /\ mf[1][idx].type = "noteon"
    /\ get_note_length(mf[1], idx) = 0

(***************************************************************************)
(* The splice of the Loop/State Restorer (SpecLoop).  `input` is the track *)
(* as it was handed to the pass, `mtrk` the track the pass works on.       *)
(***************************************************************************)
(* the restored kinds in the order of the splice: tempo, program change,   *)
(* MSB_VOLUME, MSB_PAN, pitch bend, BENDR, MSB_MOD, MODT, TUNE, PRIO       *)
SpliceKinds ==
    <<"tempo", "voice", "vol", "pan", "bend", "bendr", "mod", "modt", "tune",
      "prio">>

(* the LOOP_END marker at position p of the input follows a LOOP_START     *)
(* marker with a smaller tick                                              *)
FollowsLoopStart(p) ==
    \E q \in 1..(p - 1) : IsLoopStart(input[q]) /\ input[q].ticks < input[p].ticks

(* mtrk is the input with exactly ten events at the tick of the marker at  *)
(* p, of the kinds SpliceKinds in this order, immediately before it        *)
SplicedBefore(p) ==
    /\ Len(mtrk) = Len(input) + 10
    /\ SubSeq(mtrk, 1, p - 1) = SubSeq(input, 1, p - 1)
    /\ \A j \in 1..10 :
          /\ snap_field(mtrk[p + j - 1]) = SpliceKinds[j]
          /\ mtrk[p + j - 1].ticks = input[p].ticks
    /\ SubSeq(mtrk, p + 10, Len(mtrk)) = SubSeq(input, p, Len(input))

(* C19: a LOOP_END marker at tick E that follows a LOOP_START marker at    *)
(* tick S < E gets exactly ten events at tick E immediately before it, in  *)
(* the order tempo, program change, MSB_VOLUME, MSB_PAN, pitch bend,       *)
(* BENDR, MSB_MOD, MODT, TUNE, PRIO, and the scan goes on with the event   *)
(* after the marker; a LOOP_END marker with E <= S or without a LOOP_START *)
(* before it gets nothing: the track stays as it was.                      *)
C19_RestorerSplice ==
    LET ends == Positions(input, IsLoopEnd)
        spliced == {p \in ends : FollowsLoopStart(p)}
    IN  /\ phase = "loop_done" =>
              /\ \A p \in spliced : SplicedBefore(p)
              /\ spliced = {} => mtrk = input
        /\ phase = "loop_walk" =>
              /\ Len(mtrk) \in {Len(input), Len(input) + 10}
              /\ Len(mtrk) = Len(input) =>
                    /\ mtrk = input
                    /\ \A p \in spliced : idx <= p
              /\ Len(mtrk) # Len(input) =>
                    \A p \in spliced : SplicedBefore(p) /\ idx > p + 10
              /\ \A p \in ends \ spliced : idx > p => mtrk = input

(* a loop from tick 0 to tick 1 and a note after the LOOP_END marker: the  *)
(* ten events stand between the LOOP_START and the LOOP_END marker         *)
C19_Witness ==
    /\ phase = "loop_done"
    /\ input = << Controller(0, LoopChn, MIDI_CC_EX_LOOP, EX_LOOP_START),
                  Controller(1, LoopChn, MIDI_CC_EX_LOOP, EX_LOOP_END),
                  NoteOn(1, LoopChn, 60, 100) >>
    /\ Len(mtrk) = 13
    /\ mtrk[2] = Tempo(1, 500000)
    /\ mtrk[11] = Controller(1, LoopChn, MIDI_CC_EX_PRIO, 0)
    /\ mtrk[12] = input[2]
    /\ mtrk[13] = input[3]

(* a LOOP_END marker at the tick of the LOOP_START marker before it: the   *)
(* track is left as it was                                                 *)
C19_WitnessSameTick ==
    /\ phase = "loop_done"
    /\ input = << Controller(1, LoopChn, MIDI_CC_EX_LOOP, EX_LOOP_START),
                  Controller(1, LoopChn, MIDI_CC_EX_LOOP, EX_LOOP_END) >>
    /\ mtrk = input

(***************************************************************************)
(* The two flags of a bar (SpecDedup)                                      *)
(***************************************************************************)
BothFlags(c) == BarAt(c).is_referenced /\ BarAt(c).does_reference

(* C20: while the compression table is filled and ever after, no bar of    *)
(* any track has is_referenced and does_reference both true, so that the   *)
(* emitter's `assert(!abar.is_referenced || !abar.does_reference)` never   *)
(* fails.                                                                  *)
C20_FlagsExclusive ==
    /\ \A c \in BarCoords : ~BothFlags(c)
    /\ phase = "write_bar" /\ ibar <= Len(as_tracks[itrk]) => ~BothFlags(<<itrk, ibar>>)
    /\ phase # "abort"

(* three equal bars: the first is referenced by the two others, which      *)
(* reference and are not referenced; the song is written                   *)
C20_Witness ==
    /\ phase = "write_done"
    /\ \E c \in BarCoords : \E d \in BarCoords : \E e \in BarCoords :
          /\ Earlier(c, d) /\ Earlier(d, e)
          /\ BarAt(c).events = BarAt(d).events
          /\ BarAt(d).events = BarAt(e).events
          /\ BarAt(c).is_referenced /\ ~BarAt(c).does_reference
          /\ BarAt(d).does_reference /\ ~BarAt(d).is_referenced
          /\ BarAt(e).does_reference /\ ~BarAt(e).is_referenced

(***************************************************************************)
(* The TIE case of write_event (SpecEmit)                                  *)
(***************************************************************************)
(* C21: after write_event has written a TIE event, in whichever form, the  *)
(* emitter's may_repeat flag is false.                                     *)
C21_TieClearsMayRepeat == ev.type = "TIE" => ~state.may_repeat

(***************************************************************************)
(* What agb_optimize leaves alone (SpecOpt).  `input` is the song as it    *)
(* was handed to the pass.                                                 *)
(***************************************************************************)
IsEot(e) == e.type = "EOT"
IsNeitherEotNorWait(e) == e.type \notin {"EOT", "WAIT"}

(* the tick position of the event at i: the number of WAITs before it *)
TickPos(events, i) == Cardinality({k \in 1..(i - 1) : events[k].type = "WAIT"})

(* the events of one kind at the tick position p, in their order *)
AtTick(events, p, Kind(_)) ==
    LET here == [i \in 1..Len(events) |-> [e |-> events[i], p |-> TickPos(events, i)]]
        keep(x) == x.p = p /\ Kind(x.e)
    IN  SelectSeq(here, keep)

OnlyPermuted(before, after) ==
    /\ Len(after) = Len(before)
    /\ \A i \in 1..Len(before) :
          Occurrences(after, before[i]) = Occurrences(before, before[i])
    /\ \A i \in 1..Len(before) :
          (before[i].type = "WAIT" \/ after[i].type = "WAIT") => after[i] = before[i]
    /\ \A p \in 0..Len(before) :
          /\ AtTick(after, p, IsNeitherEotNorWait) = AtTick(before, p, IsNeitherEotNorWait)
          /\ AtTick(after, p, IsEot) = AtTick(before, p, IsEot)

(* C22: agb_optimize only permutes: in every bar the multiset of events is *)
(* unchanged, every WAIT keeps its position, and at every tick position    *)
(* the events other than EOT keep their relative order and the EOT events  *)
(* keep theirs.  This holds after every turn of the event loop.            *)
C22_OnlyPermutes ==
    phase \in {"opt", "opt_done"} =>
        /\ Len(as_tracks) = Len(input)
        /\ \A t \in 1..Len(as_tracks) :
              /\ Len(as_tracks[t]) = Len(input[t])
              /\ \A b \in 1..Len(as_tracks[t]) :
                    OnlyPermuted(input[t][b].events, as_tracks[t][b].events)

(* two EOT events have been moved in front of a NOTE and a TIE of their    *)
(* tick position                                                           *)
C22_Witness ==
    /\ phase = "opt_done"
    /\ input[1][1].events =
          << AgbEv("NOTE", 24, 60, 100), AgbEv("EOT", 61, 0, 0),
             AgbEv("TIE", 61, 100, 0), AgbEv("EOT", 60, 0, 0) >>
    /\ as_tracks[1][1].events =
          << AgbEv("EOT", 61, 0, 0), AgbEv("EOT", 60, 0, 0),
             AgbEv("NOTE", 24, 60, 100), AgbEv("TIE", 61, 100, 0) >>

(***************************************************************************)
(* The assertions at the top of the NOTE case (SpecNote)                   *)
(***************************************************************************)
(* `assert(state.note_len == len_table[state.note_len])` *)
NoteLenIsBase(st) == st.note_len \in 0..NOTE_LEN_MAX /\ st.note_len = len_table(st.note_len)

(* `assert(ev.note.len - len_table[ev.note.len] <= 3)`, the difference     *)
(* being unsigned                                                          *)
GateTimeFits(len) == len - len_table(len) \in 0..3

(* C23: in every emitter state the remembered note length is a fixed       *)
(* point of len_table, and every NOTE length 1..96 has a gate time         *)
(* len - len_table[len] in 0..3: the assertions at the top of the NOTE     *)
(* case hold before every call, whatever was written before.               *)
C23_NoteAssertionsHold ==
    /\ NoteLenIsBase(state)
    /\ \A len \in 1..NOTE_LEN_MAX : GateTimeFits(len)

(* a NOTE of length 27 was written with gate time 3 after one of length    *)
(* 96: the remembered length is 24                                         *)
C23_Witness ==
    /\ ev = AgbEv("NOTE", 27, 60, 100)
    /\ state.note_len = 24
    /\ Len(lines) = 1 /\ lines[1].args = <<60, 100, 3>>

(***************************************************************************)
(* The wait loop of the per-track lowering (SpecLower)                     *)
(***************************************************************************)
(* some ticks_to_event computed on the way to the event at `ticks` wraps   *)
(* below zero, or the bar index leaves the bar table                       *)
RECURSIVE wait_goes_wrong(_, _, _, _)
wait_goes_wrong(bt, ticks, cb, tc) ==
    LET ticks_to_event == ticks - (bt[cb + 1].start_tick + tc)
    IN  \/ ticks_to_event < 0
        \/ /\ ticks_to_event > 0
           /\ U32Geq(tc + ticks_to_event, bt[cb + 1].num_ticks)
           /\ \/ ~(cb + 1 < Len(bt))
              \/ wait_goes_wrong(bt, ticks, cb + 1, 0)

(* C24: for every event the lowering of a track comes to, the bar index    *)
(* stays inside the bar table (`assert(current_bar < bar_table.size())`    *)
(* holds) and ticks_to_event never wraps below zero, whatever time         *)
(* signatures track 0 holds.                                               *)
C24_WaitStaysInTable ==
    /\ phase # "abort"
    /\ (phase = "lower" /\ idx <= Len(mf[itrk]) /\ ~lower_skips(mf[itrk], idx)) =>
          /\ current_bar < Len(bar_table)
          /\ ~wait_goes_wrong(bar_table, mf[itrk][idx].ticks, current_bar,
                              tick_counter)

(***************************************************************************)
(* The bar table (SpecLower)                                               *)
(***************************************************************************)
(* C25: the bar table is contiguous: bar 0 starts at tick 0 and every bar  *)
(* starts where the bar before it ends.                                    *)
C25_BarTableContiguous ==
    bar_table # <<>> =>
        /\ bar_table[1].start_tick = 0
        /\ \A i \in 1..(Len(bar_table) - 1) :
              bar_table[i + 1].start_tick
                  = bar_table[i].start_tick + bar_table[i].num_ticks

(***************************************************************************)
(* Progress of the bar table loop (SpecBars)                               *)
(***************************************************************************)
(* C26: every turn of `while (bar_table.back().num_ticks >=                *)
(* current_bar_len)` leaves fewer ticks in the last bar than it found, so  *)
(* the loop ends, whatever bar length the time signature gave.  (A step    *)
(* from phase "bar_while" to itself is a turn of that loop.)               *)
C26_FreezeMakesProgress ==
    [][(phase = "bar_while" /\ phase' = "bar_while") =>
          Back(bar_table').num_ticks < Back(bar_table).num_ticks]_vars

(***************************************************************************)
(* Loop markers from the directives to the output (SpecInterp).  The       *)
(* passes between the Event Interpreter and the lowering keep every        *)
(* LOOP_START and LOOP_END controller event where it is; a track is        *)
(* lowered when it holds a note-on.  LoopLines is what the lowering and    *)
(* write_event make of the loop markers of a track.                        *)
(***************************************************************************)
IsLoopMarker(e) == IsLoopStart(e) \/ IsLoopEnd(e)

RECURSIVE LoopLowered(_)
LoopLowered(trk) ==
    IF trk = <<>> THEN <<>>
    ELSE (IF IsLoopMarker(Head(trk)) THEN lower_controller(Head(trk)) ELSE <<>>)
             \o LoopLowered(Tail(trk))

LoopLines(trk) == write_events(agb_state_reset, LoopLowered(trk)).out

HasNoteOn(trk) == \E i \in 1..Len(trk) : trk[i].type = "noteon"

(* C27: in every track that is written, each GOTO comes after the loop     *)
(* label of the track: no LOOP_END without a LOOP_START before it,         *)
(* whatever loop directives the file holds.                                *)
C27_GotoAfterLabel ==
    phase = "interp_done" =>
        \A t \in 1..Len(mf) : HasNoteOn(mf[t]) =>
            LET ls == LoopLines(mf[t])
            IN  \A j \in 1..Len(ls) : ls[j].op = "GOTO" =>
                    \E i \in 1..(j - 1) : ls[i].op = "LOOPLABEL"

(***************************************************************************)
(* SpecLoopRed: midi_apply_loop_and_state_reset followed by                *)
(* midi_remove_redundant_events, as main calls them, on one track.         *)
(* `input` is the track as the Track Pruner left it.                       *)
(***************************************************************************)
(* midi_apply_loop_and_state_reset has returned;                           *)
(* midi_remove_redundant_events starts on the track                        *)
LoopToRed ==
    /\ phase = "loop_done"
    /\ phase' = "red_walk"
    /\ red' = red_init
    /\ idx' = 1
    /\ UNCHANGED <<input, mtrk, once, redOthers>>

NextLoopRed ==
    \/ LoopInput \/ LoopBegin \/ LoopStep \/ LoopEnd
    \/ LoopToRed \/ RedStep \/ RedEnd

SpecLoopRed == InitLoop /\ [][NextLoopRed]_vars

HasTempo(trk) == \E i \in 1..Len(trk) : trk[i].type = "tempo"

(* the TEMPO events the lowering makes of the track *)
TempoLowered(trk) ==
    {i \in 1..Len(trk) :
        trk[i].type = "tempo"
        /\ \E j \in 1..Len(lower_event(trk, i).evs) :
              lower_event(trk, i).evs[j].type = "TEMPO"}

(* C28: a track that holds no tempo event after the Track Pruner (every    *)
(* track but track 0) holds none after the Loop/State Restorer and the     *)
(* Redundancy Eliminator either, so that its AgbTrack has no TEMPO event,  *)
(* also when the score loops.                                              *)
C28_NoTempoOutsideTrack0 ==
    (phase = "red_done" /\ ~HasTempo(input)) => TempoLowered(mtrk) = {}

(***************************************************************************)
(* Track Pruner: midi_remove_empty_tracks                                  *)
(***************************************************************************)
(* the hoisting loop: the track with its tempo and time signature events   *)
(* replaced by dummies                                                     *)
hoist_track(trk) ==
    [i \in 1..Len(trk) |->
        IF trk[i].type \in {"tempo", "timesig"}
        THEN Dummy(trk[i].ticks) ELSE trk[i]]

(* the hoisting loop: tempo_track (T = "tempo") or timesignature_track     *)
(* (T = "timesig") as the loop fills it, track by track                    *)
RECURSIVE hoisted(_, _)
hoisted(tracks, T) ==
    IF tracks = <<>> THEN <<>>
    ELSE LET OfType(e) == e.type = T
         IN  SelectSeq(Head(tracks), OfType) \o hoisted(Tail(tracks), T)

(* midi_track::sort_events of cppmidi: a stable sort by tick *)
RECURSIVE sort_events(_)
sort_events(trk) ==
    IF trk = <<>> THEN <<>>
    ELSE insert_upper(sort_events(SubSeq(trk, 1, Len(trk) - 1)), trk[Len(trk)])

(* "remove tracks without notes" *)
remove_tracks_without_notes(tracks) == SelectSeq(tracks, HasNoteOn)

(* "remove surplus time signature events", from index ievt on *)
RECURSIVE remove_surplus_timesig(_, _)
remove_surplus_timesig(trk, ievt) ==
    IF ievt > Len(trk) THEN trk
    ELSE IF find_next_event_at_tick_index(trk, ievt, "timesig", -1)
    THEN remove_surplus_timesig(
             SubSeq(trk, 1, ievt - 1) \o SubSeq(trk, ievt + 1, Len(trk)), ievt)
    ELSE remove_surplus_timesig(trk, ievt + 1)

(* the reinsertion loops: every event of the queue, in the queue's order,  *)
(* is inserted at its std::lower_bound                                     *)
RECURSIVE reinsert(_, _)
reinsert(trk, queue) ==
    IF queue = <<>> THEN trk
    ELSE reinsert(insert_lower(trk, Head(queue)), Tail(queue))

(* the whole pass: mf.midi_tracks as it leaves them *)
midi_remove_empty_tracks(tracks) ==
    LET tempo_track == sort_events(hoisted(tracks, "tempo"))
        timesignature_track == sort_events(hoisted(tracks, "timesig"))
        dummied == [k \in 1..Len(tracks) |-> hoist_track(tracks[k])]
        kept == remove_tracks_without_notes(dummied)
    IN  IF kept = <<>> THEN kept
        ELSE [kept EXCEPT ![1] =
                 reinsert(reinsert(@, tempo_track),
                          remove_surplus_timesig(timesignature_track, 1))]

(* midi_apply_filters on one track, from index ievt on, under the default  *)
(* arguments                                                               *)
RECURSIVE midi_apply_filters(_, _, _, _)
midi_apply_filters(trk, ievt, vol, expr) ==
    IF ievt > Len(trk) THEN trk
    ELSE LET r == filter_step(trk, ievt, vol, expr, arg_default)
         IN  midi_apply_filters(r.trk, ievt + 1, r.volume, r.expression)

(***************************************************************************)
(* SpecPrune: a score of PruneTracks tracks with at most MaxPruneLen       *)
(* events in all goes through midi_remove_empty_tracks; its track 0 then   *)
(* goes on through the filters, the Loop/State Restorer (which leaves a    *)
(* track without EX_LOOP events as it is) and the Redundancy Eliminator.   *)
(* `input` keeps the score as it was read.                                 *)
(***************************************************************************)
MaxPruneLen == 3
PruneTracks == 2
PruneTicks == {0, 1}
PruneChn == 1

PruneEvents(t) ==
    { Tempo(t, 250000), Tempo(t, 400000), Tempo(t, 500000),
      TimeSig(t, 4, 2), NoteOn(t, PruneChn, 60, 100) }

RECURSIVE TotalLen(_)
TotalLen(tracks) ==
    IF tracks = <<>> THEN 0 ELSE Len(Head(tracks)) + TotalLen(Tail(tracks))

InitPrune ==
    /\ phase = "prune_input"
    /\ InitIdleTrack /\ InitIdleLoop /\ InitIdleEmit
    /\ mf = [k \in 1..PruneTracks |-> <<>>]
    /\ bar_table = <<>> /\ current_bar_len = 0
    /\ itrk = 1 /\ current_bar = 0 /\ tick_counter = 0
    /\ red = red_init /\ once = <<>>
    /\ InitIdleSong /\ InitIdleOpt /\ InitIdleDedup
    /\ InitIdleInterp /\ InitIdleFilter

pruneOthers ==
    <<bar_table, current_bar_len, itrk, current_bar, tick_counter, loopVars,
      emitVars, songVars, optVars, dedupVars, interpVars, filterVars>>

(* the next event of one of the tracks of the score *)
PruneInput ==
    /\ phase = "prune_input"
    /\ TotalLen(mf) < MaxPruneLen
    /\ \E k \in 1..PruneTracks : \E t \in PruneTicks : \E e \in PruneEvents(t) :
          /\ t >= LastTick(mf[k])
          /\ mf' = [mf EXCEPT ![k] = Append(@, e)]
    /\ UNCHANGED <<phase, trackVars, redVars, pruneOthers>>

(* midi_remove_empty_tracks() *)
Prune ==
    /\ phase = "prune_input"
    /\ phase' = "pruned"
    /\ input' = mf
    /\ mf' = midi_remove_empty_tracks(mf)
    /\ UNCHANGED <<mtrk, idx, redVars, pruneOthers>>

(* midi_apply_filters(), midi_apply_loop_and_state_reset() and the start   *)
(* of midi_remove_redundant_events() on track 0                            *)
PruneToRed ==
    /\ phase = "pruned"
    /\ mf # <<>>
    /\ phase' = "red_walk"
    /\ mtrk' = midi_apply_filters(mf[1], 1, 100, 127)
    /\ red' = red_init
    /\ idx' = 1
    /\ UNCHANGED <<input, mf, once, pruneOthers>>

NextPrune == PruneInput \/ Prune \/ PruneToRed \/ RedStep \/ RedEnd

SpecPrune == InitPrune /\ [][NextPrune]_vars

(* the tempo events of the score at tick t, in input order *)
TemposAt(score, t) ==
    LET AtT(e) == e.ticks = t
    IN  SelectSeq(hoisted(score, "tempo"), AtT)

(* the tempo events track 0 holds at tick t *)
SurvivorsAt(trk, t) ==
    {i \in 1..Len(trk) : trk[i].type = "tempo" /\ trk[i].ticks = t}

(* C29: when the input holds several tempo events at one tick, a tempo     *)
(* event that is left at that tick after hoisting, reinsertion into        *)
(* track 0 and the Redundancy Eliminator carries the tempo of the last of  *)
(* them in input order.                                                    *)
C29_SameTickLastWins ==
    phase = "red_done" =>
        \A t \in PruneTicks :
            LET q == TemposAt(input, t)
            IN  Len(q) >= 2 =>
                    \A i \in SurvivorsAt(mtrk, t) : mtrk[i].a = q[Len(q)].a

(***************************************************************************)
(* SpecRpn: midi_read_infile_arguments on scores of at most                *)
(* MaxInterpEvents RPN, data entry and note events in the tracks of        *)
(* InterpTracks.                                                           *)
(***************************************************************************)
RpnChn == 1

RpnEvents(t) ==
    { Controller(t, RpnChn, MIDI_CC_MSB_RPN, 0),
      Controller(t, RpnChn, MIDI_CC_MSB_RPN, 1),
      Controller(t, RpnChn, MIDI_CC_LSB_RPN, 0),
      Controller(t, RpnChn, MIDI_CC_LSB_RPN, 1),
      Controller(t, RpnChn, MIDI_CC_MSB_DATA_ENTRY, 12),
      NoteOn(t, RpnChn, 60, 100) }

(* the next event of the last track of the file *)
RpnInput ==
    /\ phase = "interp_input"
    /\ ScoreLen(mf) < MaxInterpEvents
    /\ \E e \in RpnEvents(LastTick(mf[Len(mf)])) :
          mf' = [mf EXCEPT ![Len(mf)] = Append(@, e)]
    /\ UNCHANGED <<phase, input, idx, itrk, arg, meta, interpOthers>>

NextRpn ==
    \/ RpnInput \/ InterpInputTrack \/ InterpBegin
    \/ InterpParse \/ InterpParseNextTrack \/ InterpParseDone
    \/ InterpInsert \/ InterpDone

SpecRpn == InitInterp /\ [][NextRpn]_vars

(* the value of the last controller ctrl before index i of the track, 0    *)
(* when there is none                                                      *)
LastCtrlValue(trk, i, ctrl) ==
    LET S == {j \in 1..(i - 1) : IsCtrl(trk[j], ctrl)}
    IN  IF S = {} THEN 0
        ELSE trk[CHOOSE j \in S : \A k \in S : k <= j].b

(* the RPN selected in the track itself before index i is 0/0 *)
OwnRpnIsBendRange(trk, i) ==
    /\ LastCtrlValue(trk, i, MIDI_CC_MSB_RPN) = 0
    /\ LastCtrlValue(trk, i, MIDI_CC_LSB_RPN) = 0

(* C30: once the parse loop is through, an MSB_DATA_ENTRY event of the     *)
(* input has become a BENDR controller exactly when the RPN MSB/LSB        *)
(* events before it in its own track select RPN 0/0 (or there are none),   *)
(* whatever the tracks parsed earlier hold.                                *)
C30_BendRangePerTrack ==
    (phase = "interp_insert" /\ itrk = 1) =>
        \A k \in 1..Len(input) : \A i \in 1..Len(input[k]) :
            IsCtrl(input[k][i], MIDI_CC_MSB_DATA_ENTRY) =>
                (IsCtrl(mf[k][i], MIDI_CC_EX_BENDR)
                    <=> OwnRpnIsBendRange(input[k], i))
====
